---- MODULE Spec2Model ----
(***************************************************************************)
(* Model of the Option and Result containers of neono                      *)
(* (libs/option, libs/result).  Containers are JavaScript objects: they    *)
(* live in a heap and are passed around by reference, so that "returns     *)
(* self" and "returns a fresh container" are different outcomes.  Every    *)
(* exported function is one action; the caller then either keeps or drops  *)
(* what the call allocated.                                                *)
(***************************************************************************)
EXTENDS Integers, Sequences, FiniteSets, TLC

VARIABLES heap, pc, last

vars == <<heap, pc, last>>

(***************************************************************************)
(* Bounds                                                                  *)
(***************************************************************************)
\* number of objects the caller holds on to between two calls
MaxHeap == 3
\* largest argument list handed to combine
MaxArgs == 3
\* most Duration objects the caller holds on to
MaxDurations == 2
\* largest millisecond count, in absolute value, of a Duration the caller
\* holds on to or passes to from as milliseconds
MaxMilliseconds == 2
\* largest denominator of the millisecond count of a Duration the caller
\* holds on to
MaxDenominator == 2

(***************************************************************************)
(* JavaScript values: numbers, strings, booleans, null, undefined and      *)
(* references to heap objects.                                             *)
(***************************************************************************)
Num(n) == [k |-> "num", n |-> n, s |-> ""]
Str(s) == [k |-> "str", n |-> 0, s |-> s]
Bool(b) == [k |-> "bool", n |-> IF b THEN 1 ELSE 0, s |-> ""]
Ref(a) == [k |-> "ref", n |-> a, s |-> ""]
Null == [k |-> "null", n |-> 0, s |-> ""]
Undef == [k |-> "undef", n |-> 0, s |-> ""]

IsRef(v) == v.k = "ref"

\* payloads the caller puts into containers
Prims == {Num(1), Str("a")}
\* messages the caller hands to expect / expectErr
Msgs == {"msg", "oh no!"}

(***************************************************************************)
(* Heap objects.  A field an object does not have reads as undefined.      *)
(*   Result.Ok   { _tag: "Ok", value }                                     *)
(*   Result.Err  { _tag: "Err", error }                                    *)
(*   Option.Some { __tag: "Some", value }                                  *)
(*   Option.None { __tag: "None" }                                         *)
(*   arrays      [ items ]                                                 *)
(***************************************************************************)
OkObj(v) == [_tag |-> "Ok", __tag |-> "", value |-> v, error |-> Undef,
             isArray |-> FALSE, items |-> <<>>]
ErrObj(e) == [_tag |-> "Err", __tag |-> "", value |-> Undef, error |-> e,
              isArray |-> FALSE, items |-> <<>>]
SomeObj(v) == [_tag |-> "", __tag |-> "Some", value |-> v, error |-> Undef,
               isArray |-> FALSE, items |-> <<>>]
NoneObj == [_tag |-> "", __tag |-> "None", value |-> Undef, error |-> Undef,
            isArray |-> FALSE, items |-> <<>>]
ArrayObj(xs) == [_tag |-> "", __tag |-> "", value |-> Undef, error |-> Undef,
                 isArray |-> TRUE, items |-> xs]

\* the address of the module-level constant Option.None
NoneAddr == 1
None == Ref(NoneAddr)

(***************************************************************************)
(* Outcome of a call: the heap it leaves, what it returned or threw, and   *)
(* the callback invocations it made, in order.                             *)
(***************************************************************************)
Return(h, v, calls) ==
  [heap |-> h, ret |-> v, raised |-> FALSE, message |-> "", calls |-> calls]
Throw(h, msg, calls) ==
  [heap |-> h, ret |-> Undef, raised |-> TRUE, message |-> msg, calls |-> calls]

\* allocate obj and return the reference to it
New(h, obj, calls) == Return(Append(h, obj), Ref(Len(h) + 1), calls)

(***************************************************************************)
(* Callbacks handed to the combinators.  A callback is a small closure:    *)
(*   id        x => x                                                      *)
(*   const     () => c   (c may be a container captured by the closure)    *)
(*   Ok / Err / Some   the constructors themselves, passed as functions    *)
(*   isNumber  x => typeof x === "number"                                  *)
(*   first / second   (a, b) => a,  (a, b) => b                            *)
(* Invoke runs one and appends the invocation to the call log.             *)
(***************************************************************************)
Fn(k, c) == [k |-> k, c |-> c]

Arg(args, i) == IF i <= Len(args) THEN args[i] ELSE Undef

Invoke(h, fn, args, calls) ==
  LET log == Append(calls, [fn |-> fn, args |-> args]) IN
  CASE fn.k = "id" -> Return(h, Arg(args, 1), log)
    [] fn.k = "const" -> Return(h, fn.c, log)
    [] fn.k = "Ok" -> New(h, OkObj(Arg(args, 1)), log)
    [] fn.k = "Err" -> New(h, ErrObj(Arg(args, 1)), log)
    [] fn.k = "Some" -> New(h, SomeObj(Arg(args, 1)), log)
    [] fn.k = "isNumber" -> Return(h, Bool(Arg(args, 1).k = "num"), log)
    [] fn.k = "first" -> Return(h, Arg(args, 1), log)
    [] fn.k = "second" -> Return(h, Arg(args, 2), log)

\* JavaScript truthiness of what a predicate returned
Truthy(v) ==
  CASE v.k = "bool" -> v.n = 1
    [] v.k = "num" -> v.n # 0
    [] v.k = "str" -> v.s # ""
    [] v.k = "ref" -> TRUE
    [] OTHER -> FALSE

(***************************************************************************)
(* JSON.stringify, as far as the payloads of the model go: numbers in      *)
(* decimal, strings in double quotes, objects with their own fields in     *)
(* insertion order (a field holding undefined is left out), arrays in      *)
(* brackets (an undefined item prints as null).  Its result is a string    *)
(* value, or undefined for undefined.                                      *)
(***************************************************************************)
Digit(d) ==
  CASE d = 0 -> "0" [] d = 1 -> "1" [] d = 2 -> "2" [] d = 3 -> "3"
    [] d = 4 -> "4" [] d = 5 -> "5" [] d = 6 -> "6" [] d = 7 -> "7"
    [] d = 8 -> "8" [] d = 9 -> "9"

RECURSIVE NatToString(_)
NatToString(n) ==
  IF n < 10 THEN Digit(n) ELSE NatToString(n \div 10) \o Digit(n % 10)

NumToString(n) == IF n < 0 THEN "-" \o NatToString(0 - n) ELSE NatToString(n)

Quote(s) == "\"" \o s \o "\""

RECURSIVE Stringify(_, _)
RECURSIVE StringifyItems(_, _, _)
StringifyItems(h, xs, i) ==
  IF i > Len(xs) THEN ""
  ELSE (IF i > 1 THEN "," ELSE "")
         \o (IF xs[i].k = "undef" THEN "null" ELSE Stringify(h, xs[i]))
         \o StringifyItems(h, xs, i + 1)

StringifyField(h, name, v) ==
  IF v.k = "undef" THEN ""
  ELSE "," \o Quote(name) \o ":" \o Stringify(h, v)

Stringify(h, v) ==
  CASE v.k = "num" -> NumToString(v.n)
    [] v.k = "str" -> Quote(v.s)
    [] v.k = "bool" -> IF v.n = 1 THEN "true" ELSE "false"
    [] v.k = "null" -> "null"
    [] v.k = "undef" -> "undefined"
    [] v.k = "ref" ->
         LET o == h[v.n] IN
         IF o.isArray THEN "[" \o StringifyItems(h, o.items, 1) \o "]"
         ELSE IF o._tag # ""
           THEN "{" \o Quote("_tag") \o ":" \o Quote(o._tag)
                    \o StringifyField(h, "value", o.value)
                    \o StringifyField(h, "error", o.error) \o "}"
           ELSE "{" \o Quote("__tag") \o ":" \o Quote(o.__tag)
                    \o StringifyField(h, "value", o.value) \o "}"

JSONstringify(h, v) == IF v.k = "undef" THEN Undef ELSE Str(Stringify(h, v))

\* `${x}` in a template literal
Template(v) == IF v.k = "undef" THEN "undefined" ELSE v.s
\* the message of new Error(x)
ErrorMessage(v) == IF v.k = "undef" THEN "" ELSE v.s

(***************************************************************************)
(* The variant tests of Option (Result.transpose uses isNone)              *)
(***************************************************************************)
Option_isSome(h, self) == h[self.n].__tag = "Some"

Option_isNone(h, self) == h[self.n].__tag = "None"

(***************************************************************************)
(* Result                                                                  *)
(***************************************************************************)
Result_Ok(h, value) == New(h, OkObj(value), <<>>)

Result_Err(h, error) == New(h, ErrObj(error), <<>>)

Result_isOk(h, self) == h[self.n]._tag = "Ok"

Result_isErr(h, self) == h[self.n]._tag = "Err"

Result_isOkAnd(h, predicate, self) ==
  IF Result_isErr(h, self) THEN Return(h, Bool(FALSE), <<>>)
  ELSE Invoke(h, predicate, <<h[self.n].value>>, <<>>)

\* isErrAnd as it would be without the test of the variant
Result_isErrAnd_unguarded(h, predicate, self) ==
  Invoke(h, predicate, <<h[self.n].error>>, <<>>)

Result_isErrAnd(h, predicate, self) ==
  IF Result_isOk(h, self) THEN Return(h, Bool(FALSE), <<>>)
  ELSE Invoke(h, predicate, <<h[self.n].error>>, <<>>)

\* combine as it would be if the scan went on to the last failing result
combineLoop_lastErr(h, results, i, values) ==
  LET rest == i..Len(results)
      errs == {j \in rest : ~Result_isOk(h, results[j])}
      pushed == [j \in 1..(Len(results) + 1 - i) |-> h[results[i + j - 1].n].value]
  IN IF errs = {}
     THEN New([h EXCEPT ![values].items = @ \o pushed], OkObj(Ref(values)), <<>>)
     ELSE Return(h, results[CHOOSE j \in errs : \A m \in errs : m <= j], <<>>)

\* combine as it would be if it put each value in front (unshift for push)
combineLoop_unshift(h, results, i, values) ==
  LET rest == i..Len(results)
      errs == {j \in rest : ~Result_isOk(h, results[j])}
      n == Len(results) + 1 - i
      pushed == [j \in 1..n |-> h[results[Len(results) + 1 - j].n].value]
  IN IF errs = {}
     THEN New([h EXCEPT ![values].items = pushed \o @], OkObj(Ref(values)), <<>>)
     ELSE Return(h, results[CHOOSE j \in errs : \A m \in errs : j <= m], <<>>)

\* combine as it would be if it wrapped the error it found in a new Err
RECURSIVE combineLoop_rewrap(_, _, _, _)
combineLoop_rewrap(h, results, i, values) ==
  IF i > Len(results) THEN New(h, OkObj(Ref(values)), <<>>)
  ELSE IF Result_isOk(h, results[i])
    THEN combineLoop_rewrap([h EXCEPT ![values].items = Append(@, h[results[i].n].value)],
                            results, i + 1, values)
    ELSE New(h, ErrObj(h[results[i].n].error), <<>>)

\* the for loop of combine from the i-th result on; values is the address
\* of the array the loop pushes to
RECURSIVE combineLoop(_, _, _, _)
combineLoop(h, results, i, values) ==
  IF i > Len(results) THEN New(h, OkObj(Ref(values)), <<>>)
  ELSE IF Result_isOk(h, results[i])
    THEN combineLoop([h EXCEPT ![values].items = Append(@, h[results[i].n].value)],
                     results, i + 1, values)
    ELSE Return(h, results[i], <<>>)

Result_combine(h, results) ==
  combineLoop(Append(h, ArrayObj(<<>>)), results, 1, Len(h) + 1)

\* map as it would be if it rebuilt the Err it passes through
Result_map_rewrap(h, fn, self) ==
  IF Result_isErr(h, self) THEN New(h, ErrObj(h[self.n].error), <<>>)
  ELSE LET r == Invoke(h, fn, <<h[self.n].value>>, <<>>)
       IN New(r.heap, OkObj(r.ret), r.calls)

Result_map(h, fn, self) ==
  IF Result_isErr(h, self) THEN Return(h, self, <<>>)
  ELSE LET r == Invoke(h, fn, <<h[self.n].value>>, <<>>)
       IN New(r.heap, OkObj(r.ret), r.calls)

\* mapErr as it would be if it overwrote the error of self in place
Result_mapErr_inplace(h, fn, self) ==
  IF Result_isOk(h, self) THEN Return(h, self, <<>>)
  ELSE LET r == Invoke(h, fn, <<h[self.n].error>>, <<>>)
       IN Return([r.heap EXCEPT ![self.n].error = r.ret], self, r.calls)

\* mapErr as it would be if it built an Ok around fn(error), as map does
Result_mapErr_asOk(h, fn, self) ==
  IF Result_isOk(h, self) THEN Return(h, self, <<>>)
  ELSE LET r == Invoke(h, fn, <<h[self.n].error>>, <<>>)
       IN New(r.heap, OkObj(r.ret), r.calls)

Result_mapErr(h, fn, self) ==
  IF Result_isOk(h, self) THEN Return(h, self, <<>>)
  ELSE LET r == Invoke(h, fn, <<h[self.n].error>>, <<>>)
       IN New(r.heap, ErrObj(r.ret), r.calls)

Result_mapOr(h, defaultValue, fn, self) ==
  IF Result_isErr(h, self) THEN New(h, OkObj(defaultValue), <<>>)
  ELSE LET r == Invoke(h, fn, <<h[self.n].value>>, <<>>)
       IN New(r.heap, OkObj(r.ret), r.calls)

\* mapOrElse as it would be if it let the Err through, as map does
Result_mapOrElse_propagate(h, fnWhenFailure, fnWhenSuccess, self) ==
  IF Result_isErr(h, self) THEN Return(h, self, <<>>)
  ELSE LET r == Invoke(h, fnWhenSuccess, <<h[self.n].value>>, <<>>)
       IN New(r.heap, OkObj(r.ret), r.calls)

Result_mapOrElse(h, fnWhenFailure, fnWhenSuccess, self) ==
  IF Result_isErr(h, self)
  THEN LET r == Invoke(h, fnWhenFailure, <<h[self.n].error>>, <<>>)
       IN New(r.heap, OkObj(r.ret), r.calls)
  ELSE LET r == Invoke(h, fnWhenSuccess, <<h[self.n].value>>, <<>>)
       IN New(r.heap, OkObj(r.ret), r.calls)

Result_andThen(h, fn, self) ==
  IF Result_isErr(h, self) THEN Return(h, self, <<>>)
  ELSE Invoke(h, fn, <<h[self.n].value>>, <<>>)

Result_and(h, result, self) ==
  IF Result_isErr(h, self) THEN Return(h, self, <<>>)
  ELSE Return(h, result, <<>>)

\* ok as it would be if it built a None of its own
Result_ok_ownNone(h, self) ==
  IF Result_isErr(h, self) THEN New(h, NoneObj, <<>>)
  ELSE New(h, SomeObj(h[self.n].value), <<>>)

Result_ok(h, self) ==
  IF Result_isErr(h, self) THEN Return(h, None, <<>>)
  ELSE New(h, SomeObj(h[self.n].value), <<>>)

\* inspect as it would be if it rebuilt the container it returns
Result_inspect_copy(h, fn, self) ==
  IF Result_isErr(h, self) THEN Return(h, self, <<>>)
  ELSE LET r == Invoke(h, fn, <<h[self.n].value>>, <<>>)
       IN New(r.heap, OkObj(h[self.n].value), r.calls)

Result_inspect(h, fn, self) ==
  IF Result_isErr(h, self) THEN Return(h, self, <<>>)
  ELSE LET r == Invoke(h, fn, <<h[self.n].value>>, <<>>)
       IN Return(r.heap, self, r.calls)

\* inspectErr as it would be without the test of the variant
Result_inspectErr_unguarded(h, fn, self) ==
  LET r == Invoke(h, fn, <<h[self.n].error>>, <<>>)
  IN Return(r.heap, self, r.calls)

Result_inspectErr(h, fn, self) ==
  IF Result_isOk(h, self) THEN Return(h, self, <<>>)
  ELSE LET r == Invoke(h, fn, <<h[self.n].error>>, <<>>)
       IN Return(r.heap, self, r.calls)

\* flatten as it would be if an inner Err were answered with the outer result
Result_flatten_keepOuter(h, self) ==
  IF Result_isErr(h, self) THEN Return(h, self, <<>>)
  ELSE IF Result_isErr(h, h[self.n].value) THEN Return(h, self, <<>>)
  ELSE Return(h, h[self.n].value, <<>>)

Result_flatten(h, self) ==
  IF Result_isErr(h, self) THEN Return(h, self, <<>>)
  ELSE IF Result_isErr(h, h[self.n].value) THEN Return(h, h[self.n].value, <<>>)
  ELSE Return(h, h[self.n].value, <<>>)

\* intoOk as it would be if it rejected the wrong variant
Result_intoOk_throws(h, self) ==
  IF Result_isOk(h, self) THEN Return(h, h[self.n].value, <<>>)
  ELSE Throw(h, ErrorMessage(JSONstringify(h, h[self.n].error)), <<>>)

Result_intoOk(h, self) ==
  IF Result_isOk(h, self) THEN Return(h, h[self.n].value, <<>>)
  ELSE Return(h, Undef, <<>>)

\* intoErr as it would be if it handed out the value of an Ok
Result_intoErr_value(h, self) ==
  IF Result_isErr(h, self) THEN Return(h, h[self.n].error, <<>>)
  ELSE Return(h, h[self.n].value, <<>>)

Result_intoErr(h, self) ==
  IF Result_isErr(h, self) THEN Return(h, h[self.n].error, <<>>)
  ELSE Return(h, Undef, <<>>)

\* expect as it would be if it threw the bare message, as Option.expect does
Result_expect_bare(h, message, self) ==
  IF Result_isErr(h, self) THEN Throw(h, message, <<>>)
  ELSE Return(h, h[self.n].value, <<>>)

Result_expect(h, message, self) ==
  IF Result_isErr(h, self)
  THEN Throw(h, message \o ": " \o Template(JSONstringify(h, h[self.n].error)), <<>>)
  ELSE Return(h, h[self.n].value, <<>>)

Result_expectErr(h, message, self) ==
  IF Result_isOk(h, self)
  THEN Throw(h, message \o ": " \o Template(JSONstringify(h, h[self.n].value)), <<>>)
  ELSE Return(h, h[self.n].error, <<>>)

\* err as it would be without the test of the variant
Result_err_unguarded(h, self) ==
  New(h, SomeObj(h[self.n].error), <<>>)

Result_err(h, self) ==
  IF Result_isOk(h, self) THEN Return(h, None, <<>>)
  ELSE New(h, SomeObj(h[self.n].error), <<>>)

Result_or(h, other, self) ==
  IF Result_isErr(h, self) THEN Return(h, other, <<>>)
  ELSE Return(h, self, <<>>)

\* orElse as it would be if it called fn without the error, as Option.orElse
\* calls its thunk
Result_orElse_noError(h, fn, self) ==
  IF Result_isOk(h, self) THEN Return(h, self, <<>>)
  ELSE Invoke(h, fn, <<>>, <<>>)

Result_orElse(h, fn, self) ==
  IF Result_isOk(h, self) THEN Return(h, self, <<>>)
  ELSE Invoke(h, fn, <<h[self.n].error>>, <<>>)

\* transpose as it would be if an Err became None, as it does in Result.ok
Result_transpose_dropErr(h, self) ==
  IF Result_isOk(h, self)
  THEN IF Option_isNone(h, h[self.n].value) THEN Return(h, h[self.n].value, <<>>)
       ELSE LET inner == New(h, OkObj(h[h[self.n].value.n].value), <<>>)
            IN New(inner.heap, SomeObj(inner.ret), <<>>)
  ELSE Return(h, None, <<>>)

Result_transpose(h, self) ==
  IF Result_isOk(h, self)
  THEN IF Option_isNone(h, h[self.n].value) THEN Return(h, h[self.n].value, <<>>)
       ELSE LET inner == New(h, OkObj(h[h[self.n].value.n].value), <<>>)
            IN New(inner.heap, SomeObj(inner.ret), <<>>)
  ELSE New(h, SomeObj(self), <<>>)

Result_unwrap(h, self) ==
  IF Result_isOk(h, self) THEN Return(h, h[self.n].value, <<>>)
  ELSE Throw(h, ErrorMessage(JSONstringify(h, h[self.n].error)), <<>>)

Result_unwrapErr(h, self) ==
  IF Result_isErr(h, self) THEN Return(h, h[self.n].error, <<>>)
  ELSE Throw(h, ErrorMessage(JSONstringify(h, h[self.n].value)), <<>>)

Result_unwrapOr(h, defaultValue, self) ==
  IF Result_isErr(h, self) THEN Return(h, defaultValue, <<>>)
  ELSE Return(h, h[self.n].value, <<>>)

Result_unwrapOrElse(h, callback, self) ==
  IF Result_isErr(h, self) THEN Invoke(h, callback, <<h[self.n].error>>, <<>>)
  ELSE Return(h, h[self.n].value, <<>>)

(***************************************************************************)
(* Option                                                                  *)
(***************************************************************************)
Option_Some(h, value) == New(h, SomeObj(value), <<>>)

Option_fromNullable(h, value) ==
  IF value = Null THEN Return(h, None, <<>>)
  ELSE New(h, SomeObj(value), <<>>)

Option_map(h, fn, self) ==
  IF Option_isNone(h, self) THEN Return(h, self, <<>>)
  ELSE LET r == Invoke(h, fn, <<h[self.n].value>>, <<>>)
       IN New(r.heap, SomeObj(r.ret), r.calls)

Option_mapOr(h, defaultValue, fn, self) ==
  IF Option_isNone(h, self) THEN New(h, SomeObj(defaultValue), <<>>)
  ELSE LET r == Invoke(h, fn, <<h[self.n].value>>, <<>>)
       IN New(r.heap, SomeObj(r.ret), r.calls)

Option_mapOrElse(h, cb, fn, self) ==
  IF Option_isNone(h, self)
  THEN LET r == Invoke(h, cb, <<>>, <<>>)
       IN New(r.heap, SomeObj(r.ret), r.calls)
  ELSE LET r == Invoke(h, fn, <<h[self.n].value>>, <<>>)
       IN New(r.heap, SomeObj(r.ret), r.calls)

\* fns.None is a value, fns.Some a callback
Option_match(h, fnsNone, fnsSome, self) ==
  IF Option_isNone(h, self) THEN New(h, SomeObj(fnsNone), <<>>)
  ELSE LET r == Invoke(h, fnsSome, <<h[self.n].value>>, <<>>)
       IN New(r.heap, SomeObj(r.ret), r.calls)

\* The message Option.unwrap throws.  The source writes Option.None between
\* two grave accents (U+0060), a character a TLA+ string cannot hold; it is
\* written here as an apostrophe.
UnwrapNoneMessage == "[Option] Tried to unwrap an 'Option.None'."

Option_unwrap(h, self) ==
  IF Option_isNone(h, self) THEN Throw(h, UnwrapNoneMessage, <<>>)
  ELSE Return(h, h[self.n].value, <<>>)

Option_unwrapOr(h, defaultValue, self) ==
  IF Option_isNone(h, self) THEN Return(h, defaultValue, <<>>)
  ELSE Return(h, h[self.n].value, <<>>)

\* unwrapOrElse as it would be if it computed the default before the test
Option_unwrapOrElse_eager(h, fn, self) ==
  LET r == Invoke(h, fn, <<>>, <<>>)
  IN IF Option_isNone(h, self) THEN r
     ELSE Return(r.heap, h[self.n].value, r.calls)

Option_unwrapOrElse(h, fn, self) ==
  IF Option_isNone(h, self) THEN Invoke(h, fn, <<>>, <<>>)
  ELSE Return(h, h[self.n].value, <<>>)

Option_and(h, secondOption, self) ==
  IF Option_isNone(h, self) THEN Return(h, self, <<>>)
  ELSE Return(h, secondOption, <<>>)

Option_andThen(h, callback, self) ==
  IF Option_isNone(h, self) THEN Return(h, self, <<>>)
  ELSE Invoke(h, callback, <<h[self.n].value>>, <<>>)

\* expect as it would be if it appended a rendering, as Result.expect does
Option_expect_rendered(h, message, self) ==
  IF Option_isNone(h, self)
  THEN Throw(h, message \o ": " \o Template(JSONstringify(h, self)), <<>>)
  ELSE Return(h, h[self.n].value, <<>>)

Option_expect(h, message, self) ==
  IF Option_isNone(h, self) THEN Throw(h, message, <<>>)
  ELSE Return(h, h[self.n].value, <<>>)

\* filter as it would be if it built a new Some for the value it keeps
Option_filter_rewrap(h, predicate, self) ==
  IF Option_isNone(h, self) THEN Return(h, self, <<>>)
  ELSE LET r == Invoke(h, predicate, <<h[self.n].value>>, <<>>)
       IN IF Truthy(r.ret) THEN New(r.heap, SomeObj(h[self.n].value), r.calls)
          ELSE Return(r.heap, None, r.calls)

Option_filter(h, predicate, self) ==
  IF Option_isNone(h, self) THEN Return(h, self, <<>>)
  ELSE LET r == Invoke(h, predicate, <<h[self.n].value>>, <<>>)
       IN IF Truthy(r.ret) THEN Return(r.heap, self, r.calls)
          ELSE Return(r.heap, None, r.calls)

Option_flatten(h, self) ==
  IF Option_isNone(h, self) THEN Return(h, self, <<>>)
  ELSE Return(h, h[self.n].value, <<>>)

Option_inspect(h, fn, self) ==
  IF Option_isNone(h, self) THEN Return(h, self, <<>>)
  ELSE LET r == Invoke(h, fn, <<h[self.n].value>>, <<>>)
       IN Return(r.heap, self, r.calls)

\* okOr as it would be if it put the Some itself, not its value, into the Ok
Option_okOr_nested(h, error, self) ==
  IF Option_isNone(h, self) THEN New(h, ErrObj(error), <<>>)
  ELSE New(h, OkObj(self), <<>>)

Option_okOr(h, error, self) ==
  IF Option_isNone(h, self) THEN New(h, ErrObj(error), <<>>)
  ELSE New(h, OkObj(h[self.n].value), <<>>)

Option_okOrElse(h, fn, self) ==
  IF Option_isNone(h, self)
  THEN LET r == Invoke(h, fn, <<>>, <<>>)
       IN New(r.heap, ErrObj(r.ret), r.calls)
  ELSE New(h, OkObj(h[self.n].value), <<>>)

\* or as it would be if it handed out what self holds instead of self
Option_or_unwrapped(h, defaultOption, self) ==
  IF Option_isNone(h, self) THEN Return(h, defaultOption, <<>>)
  ELSE Return(h, h[self.n].value, <<>>)

Option_or(h, defaultOption, self) ==
  IF Option_isNone(h, self) THEN Return(h, defaultOption, <<>>)
  ELSE Return(h, self, <<>>)

Option_orElse(h, fn, self) ==
  IF Option_isNone(h, self) THEN Invoke(h, fn, <<>>, <<>>)
  ELSE Return(h, self, <<>>)

\* transpose as it would be if None were handed back without the Ok around it
Option_transpose_bare(h, self) ==
  IF Option_isNone(h, self) THEN Return(h, self, <<>>)
  ELSE IF Result_isErr(h, h[self.n].value) THEN Return(h, h[self.n].value, <<>>)
  ELSE LET inner == New(h, SomeObj(h[h[self.n].value.n].value), <<>>)
       IN New(inner.heap, OkObj(inner.ret), <<>>)

Option_transpose(h, self) ==
  IF Option_isNone(h, self) THEN New(h, OkObj(self), <<>>)
  ELSE IF Result_isErr(h, h[self.n].value) THEN Return(h, h[self.n].value, <<>>)
  ELSE LET inner == New(h, SomeObj(h[h[self.n].value.n].value), <<>>)
       IN New(inner.heap, OkObj(inner.ret), <<>>)

\* the returned pair is an array of two Options
Option_unzip(h, self) ==
  IF Option_isNone(h, self) THEN New(h, ArrayObj(<<None, None>>), <<>>)
  ELSE LET pair == h[h[self.n].value.n].items
           a == New(h, SomeObj(Arg(pair, 1)), <<>>)
           b == New(a.heap, SomeObj(Arg(pair, 2)), <<>>)
       IN New(b.heap, ArrayObj(<<a.ret, b.ret>>), <<>>)

Option_zip(h, other, self) ==
  IF Option_isNone(h, self) THEN Return(h, self, <<>>)
  ELSE IF Option_isNone(h, other) THEN Return(h, other, <<>>)
  ELSE LET pair == New(h, ArrayObj(<<h[self.n].value, h[other.n].value>>), <<>>)
       IN New(pair.heap, SomeObj(pair.ret), <<>>)

\* zipWith as it would be without the test of other
Option_zipWith_halfChecked(h, other, fn, self) ==
  IF Option_isNone(h, self) THEN Return(h, self, <<>>)
  ELSE LET r == Invoke(h, fn, <<h[self.n].value, h[other.n].value>>, <<>>)
       IN New(r.heap, SomeObj(r.ret), r.calls)

Option_zipWith(h, other, fn, self) ==
  IF Option_isNone(h, self) THEN Return(h, self, <<>>)
  ELSE IF Option_isNone(h, other) THEN Return(h, other, <<>>)
  ELSE LET r == Invoke(h, fn, <<h[self.n].value, h[other.n].value>>, <<>>)
       IN New(r.heap, SomeObj(r.ret), r.calls)

(***************************************************************************)
(* The inputs a caller can hand to the functions.  TypeScript rules out    *)
(* ill-typed arguments, so self is always a container of the right type    *)
(* and the nested forms (flatten, transpose, unzip) get the nesting their  *)
(* signature asks for.                                                     *)
(***************************************************************************)
Addrs(h) == 1..Len(h)
Results(h) == {Ref(a) : a \in {b \in Addrs(h) : h[b]._tag \in {"Ok", "Err"}}}
Options(h) == {Ref(a) : a \in {b \in Addrs(h) : h[b].__tag \in {"Some", "None"}}}
Pairs(h) == {Ref(a) : a \in {b \in Addrs(h) : h[b].isArray /\ Len(h[b].items) = 2}}
Payloads(h) == Prims \cup Results(h) \cup Options(h) \cup Pairs(h)

\* Result<Result<T, E>, E>
NestedResults(h) ==
  {r \in Results(h) : Result_isOk(h, r) => h[r.n].value \in Results(h)}
\* Result<Option<T>, E>
ResultsOfOption(h) ==
  {r \in Results(h) : Result_isOk(h, r) => h[r.n].value \in Options(h)}
\* Option<Option<T>>
NestedOptions(h) ==
  {o \in Options(h) : Option_isSome(h, o) => h[o.n].value \in Options(h)}
\* Option<Result<T, E>>
OptionsOfResult(h) ==
  {o \in Options(h) : Option_isSome(h, o) => h[o.n].value \in Results(h)}
\* Option<[T, U]>
OptionsOfPair(h) ==
  {o \in Options(h) : Option_isSome(h, o) => h[o.n].value \in Pairs(h)}

\* default values and default errors
Defaults == {Num(2)}
\* (value) => value callbacks
ValueFns == {Fn("id", Undef), Fn("const", Num(2))}
\* () => value callbacks
Thunks == {Fn("const", Num(2))}
\* (value) => boolean callbacks
Predicates == {Fn("isNumber", Undef), Fn("const", Bool(TRUE))}
\* (value) => Result callbacks
ResultFns(h) == {Fn("Ok", Undef), Fn("Err", Undef)}
                  \cup {Fn("const", r) : r \in Results(h)}
\* (value) => Option callbacks
OptionFns(h) == {Fn("Some", Undef)} \cup {Fn("const", o) : o \in Options(h)}
\* () => Option callbacks
OptionThunks(h) == {Fn("const", o) : o \in Options(h)}
\* (a, b) => value callbacks
PairFns == {Fn("first", Undef), Fn("second", Undef)}

\* the argument lists of combine: up to n results, repetitions allowed
RECURSIVE ArgLists(_, _)
ArgLists(S, n) ==
  IF n = 0 THEN {<<>>}
  ELSE LET shorter == ArgLists(S, n - 1)
       IN shorter \cup {Append(l, x) : l \in {m \in shorter : Len(m) = n - 1}, x \in S}

(***************************************************************************)
(* State machine.  heap is the object heap (heap[NoneAddr] is Option.None),*)
(* pc tells whether a call has just returned, last records that call.      *)
(***************************************************************************)
NoCall == [op |-> "", self |-> Undef, args |-> <<>>, fns |-> <<>>,
           ret |-> Undef, raised |-> FALSE, message |-> "", calls |-> <<>>,
           base |-> 0]

Init ==
  /\ heap = <<NoneObj>>
  /\ pc = "idle"
  /\ last = NoCall

\* the effect of one call of an exported function: out is what the function
\* did; a call starts only when the previous one has been dealt with
Call(op, self, args, fns, out) ==
  /\ pc' = "returned"
  /\ heap' = out.heap
  /\ last' = [op |-> op, self |-> self, args |-> args, fns |-> fns,
              ret |-> out.ret, raised |-> out.raised, message |-> out.message,
              calls |-> out.calls, base |-> Len(heap)]

\* the caller holds on to what the call allocated
Keep ==
  /\ pc = "returned"
  /\ Len(heap) > last.base
  /\ Len(heap) <= MaxHeap
  /\ pc' = "idle"
  /\ last' = NoCall
  /\ UNCHANGED heap

\* the caller drops what the call allocated, which is then unreachable
Discard ==
  /\ pc = "returned"
  /\ pc' = "idle"
  /\ last' = NoCall
  /\ heap' = SubSeq(heap, 1, last.base)

\* an array literal [a, b] written by the caller, as in Option.Some([1, "hi"])
ArrayLiteral ==
  /\ pc = "idle"
  /\ \E a \in Prims : \E b \in Prims \ {a} :
       Call("[]", Undef, <<a, b>>, <<>>, New(heap, ArrayObj(<<a, b>>), <<>>))

(***************************************************************************)
(* One action per exported function.                                       *)
(***************************************************************************)
Call_Result_Ok ==
  /\ pc = "idle"
  /\ \E value \in Payloads(heap) :
       Call("Result.Ok", Undef, <<value>>, <<>>,
            Result_Ok(heap, value))

Call_Result_Err ==
  /\ pc = "idle"
  /\ \E error \in Payloads(heap) :
       Call("Result.Err", Undef, <<error>>, <<>>,
            Result_Err(heap, error))

Call_Result_isOk ==
  /\ pc = "idle"
  /\ \E self \in Results(heap) :
       Call("Result.isOk", self, <<>>, <<>>,
            Return(heap, Bool(Result_isOk(heap, self)), <<>>))

Call_Result_isOkAnd ==
  /\ pc = "idle"
  /\ \E predicate \in Predicates, self \in Results(heap) :
       Call("Result.isOkAnd", self, <<>>, <<predicate>>,
            Result_isOkAnd(heap, predicate, self))

Call_Result_isErr ==
  /\ pc = "idle"
  /\ \E self \in Results(heap) :
       Call("Result.isErr", self, <<>>, <<>>,
            Return(heap, Bool(Result_isErr(heap, self)), <<>>))

Call_Result_isErrAnd ==
  /\ pc = "idle"
  /\ \E predicate \in Predicates, self \in Results(heap) :
       Call("Result.isErrAnd", self, <<>>, <<predicate>>,
            Result_isErrAnd(heap, predicate, self))

Call_Result_combine ==
  /\ pc = "idle"
  /\ \E results \in ArgLists(Results(heap), MaxArgs) :
       Call("Result.combine", Undef, results, <<>>,
            Result_combine(heap, results))

Call_Result_map ==
  /\ pc = "idle"
  /\ \E fn \in ValueFns, self \in Results(heap) :
       Call("Result.map", self, <<>>, <<fn>>,
            Result_map(heap, fn, self))

Call_Result_mapErr ==
  /\ pc = "idle"
  /\ \E fn \in ValueFns, self \in Results(heap) :
       Call("Result.mapErr", self, <<>>, <<fn>>,
            Result_mapErr(heap, fn, self))

Call_Result_mapOr ==
  /\ pc = "idle"
  /\ \E defaultValue \in Defaults, fn \in ValueFns, self \in Results(heap) :
       Call("Result.mapOr", self, <<defaultValue>>, <<fn>>,
            Result_mapOr(heap, defaultValue, fn, self))

Call_Result_mapOrElse ==
  /\ pc = "idle"
  /\ \E fnWhenFailure \in ValueFns, fnWhenSuccess \in ValueFns, self \in Results(heap) :
       Call("Result.mapOrElse", self, <<>>, <<fnWhenFailure, fnWhenSuccess>>,
            Result_mapOrElse(heap, fnWhenFailure, fnWhenSuccess, self))

Call_Result_andThen ==
  /\ pc = "idle"
  /\ \E fn \in ResultFns(heap), self \in Results(heap) :
       Call("Result.andThen", self, <<>>, <<fn>>,
            Result_andThen(heap, fn, self))

Call_Result_and ==
  /\ pc = "idle"
  /\ \E result \in Results(heap), self \in Results(heap) :
       Call("Result.and", self, <<result>>, <<>>,
            Result_and(heap, result, self))

Call_Result_ok ==
  /\ pc = "idle"
  /\ \E self \in Results(heap) :
       Call("Result.ok", self, <<>>, <<>>,
            Result_ok(heap, self))

Call_Result_inspect ==
  /\ pc = "idle"
  /\ \E fn \in ValueFns, self \in Results(heap) :
       Call("Result.inspect", self, <<>>, <<fn>>,
            Result_inspect(heap, fn, self))

Call_Result_inspectErr ==
  /\ pc = "idle"
  /\ \E fn \in ValueFns, self \in Results(heap) :
       Call("Result.inspectErr", self, <<>>, <<fn>>,
            Result_inspectErr(heap, fn, self))

Call_Result_flatten ==
  /\ pc = "idle"
  /\ \E self \in NestedResults(heap) :
       Call("Result.flatten", self, <<>>, <<>>,
            Result_flatten(heap, self))

Call_Result_intoOk ==
  /\ pc = "idle"
  /\ \E self \in Results(heap) :
       Call("Result.intoOk", self, <<>>, <<>>,
            Result_intoOk(heap, self))

Call_Result_intoErr ==
  /\ pc = "idle"
  /\ \E self \in Results(heap) :
       Call("Result.intoErr", self, <<>>, <<>>,
            Result_intoErr(heap, self))

Call_Result_expect ==
  /\ pc = "idle"
  /\ \E message \in Msgs, self \in Results(heap) :
       Call("Result.expect", self, <<Str(message)>>, <<>>,
            Result_expect(heap, message, self))

Call_Result_expectErr ==
  /\ pc = "idle"
  /\ \E message \in Msgs, self \in Results(heap) :
       Call("Result.expectErr", self, <<Str(message)>>, <<>>,
            Result_expectErr(heap, message, self))

Call_Result_err ==
  /\ pc = "idle"
  /\ \E self \in Results(heap) :
       Call("Result.err", self, <<>>, <<>>,
            Result_err(heap, self))

Call_Result_or ==
  /\ pc = "idle"
  /\ \E other \in Results(heap), self \in Results(heap) :
       Call("Result.or", self, <<other>>, <<>>,
            Result_or(heap, other, self))

Call_Result_orElse ==
  /\ pc = "idle"
  /\ \E fn \in ResultFns(heap), self \in Results(heap) :
       Call("Result.orElse", self, <<>>, <<fn>>,
            Result_orElse(heap, fn, self))

Call_Result_transpose ==
  /\ pc = "idle"
  /\ \E self \in ResultsOfOption(heap) :
       Call("Result.transpose", self, <<>>, <<>>,
            Result_transpose(heap, self))

Call_Result_unwrap ==
  /\ pc = "idle"
  /\ \E self \in Results(heap) :
       Call("Result.unwrap", self, <<>>, <<>>,
            Result_unwrap(heap, self))

Call_Result_unwrapErr ==
  /\ pc = "idle"
  /\ \E self \in Results(heap) :
       Call("Result.unwrapErr", self, <<>>, <<>>,
            Result_unwrapErr(heap, self))

Call_Result_unwrapOr ==
  /\ pc = "idle"
  /\ \E defaultValue \in Defaults, self \in Results(heap) :
       Call("Result.unwrapOr", self, <<defaultValue>>, <<>>,
            Result_unwrapOr(heap, defaultValue, self))

Call_Result_unwrapOrElse ==
  /\ pc = "idle"
  /\ \E callback \in ValueFns, self \in Results(heap) :
       Call("Result.unwrapOrElse", self, <<>>, <<callback>>,
            Result_unwrapOrElse(heap, callback, self))

Call_Option_Some ==
  /\ pc = "idle"
  /\ \E value \in Payloads(heap) :
       Call("Option.Some", Undef, <<value>>, <<>>,
            Option_Some(heap, value))

Call_Option_isSome ==
  /\ pc = "idle"
  /\ \E self \in Options(heap) :
       Call("Option.isSome", self, <<>>, <<>>,
            Return(heap, Bool(Option_isSome(heap, self)), <<>>))

Call_Option_isNone ==
  /\ pc = "idle"
  /\ \E self \in Options(heap) :
       Call("Option.isNone", self, <<>>, <<>>,
            Return(heap, Bool(Option_isNone(heap, self)), <<>>))

Call_Option_fromNullable ==
  /\ pc = "idle"
  /\ \E value \in Prims \cup {Null} :
       Call("Option.fromNullable", Undef, <<value>>, <<>>,
            Option_fromNullable(heap, value))

Call_Option_map ==
  /\ pc = "idle"
  /\ \E fn \in ValueFns, self \in Options(heap) :
       Call("Option.map", self, <<>>, <<fn>>,
            Option_map(heap, fn, self))

Call_Option_mapOr ==
  /\ pc = "idle"
  /\ \E defaultValue \in Defaults, fn \in ValueFns, self \in Options(heap) :
       Call("Option.mapOr", self, <<defaultValue>>, <<fn>>,
            Option_mapOr(heap, defaultValue, fn, self))

Call_Option_mapOrElse ==
  /\ pc = "idle"
  /\ \E cb \in Thunks, fn \in ValueFns, self \in Options(heap) :
       Call("Option.mapOrElse", self, <<>>, <<cb, fn>>,
            Option_mapOrElse(heap, cb, fn, self))

Call_Option_match ==
  /\ pc = "idle"
  /\ \E fnsNone \in Defaults, fnsSome \in ValueFns, self \in Options(heap) :
       Call("Option.match", self, <<fnsNone>>, <<fnsSome>>,
            Option_match(heap, fnsNone, fnsSome, self))

Call_Option_unwrap ==
  /\ pc = "idle"
  /\ \E self \in Options(heap) :
       Call("Option.unwrap", self, <<>>, <<>>,
            Option_unwrap(heap, self))

Call_Option_unwrapOr ==
  /\ pc = "idle"
  /\ \E defaultValue \in Defaults, self \in Options(heap) :
       Call("Option.unwrapOr", self, <<defaultValue>>, <<>>,
            Option_unwrapOr(heap, defaultValue, self))

Call_Option_unwrapOrElse ==
  /\ pc = "idle"
  /\ \E fn \in Thunks, self \in Options(heap) :
       Call("Option.unwrapOrElse", self, <<>>, <<fn>>,
            Option_unwrapOrElse(heap, fn, self))

Call_Option_and ==
  /\ pc = "idle"
  /\ \E secondOption \in Options(heap), self \in Options(heap) :
       Call("Option.and", self, <<secondOption>>, <<>>,
            Option_and(heap, secondOption, self))

Call_Option_andThen ==
  /\ pc = "idle"
  /\ \E callback \in OptionFns(heap), self \in Options(heap) :
       Call("Option.andThen", self, <<>>, <<callback>>,
            Option_andThen(heap, callback, self))

Call_Option_expect ==
  /\ pc = "idle"
  /\ \E message \in Msgs, self \in Options(heap) :
       Call("Option.expect", self, <<Str(message)>>, <<>>,
            Option_expect(heap, message, self))

Call_Option_filter ==
  /\ pc = "idle"
  /\ \E predicate \in Predicates, self \in Options(heap) :
       Call("Option.filter", self, <<>>, <<predicate>>,
            Option_filter(heap, predicate, self))

Call_Option_flatten ==
  /\ pc = "idle"
  /\ \E self \in NestedOptions(heap) :
       Call("Option.flatten", self, <<>>, <<>>,
            Option_flatten(heap, self))

Call_Option_inspect ==
  /\ pc = "idle"
  /\ \E fn \in ValueFns, self \in Options(heap) :
       Call("Option.inspect", self, <<>>, <<fn>>,
            Option_inspect(heap, fn, self))

Call_Option_okOr ==
  /\ pc = "idle"
  /\ \E error \in Defaults, self \in Options(heap) :
       Call("Option.okOr", self, <<error>>, <<>>,
            Option_okOr(heap, error, self))

Call_Option_okOrElse ==
  /\ pc = "idle"
  /\ \E fn \in Thunks, self \in Options(heap) :
       Call("Option.okOrElse", self, <<>>, <<fn>>,
            Option_okOrElse(heap, fn, self))

Call_Option_or ==
  /\ pc = "idle"
  /\ \E defaultOption \in Options(heap), self \in Options(heap) :
       Call("Option.or", self, <<defaultOption>>, <<>>,
            Option_or(heap, defaultOption, self))

Call_Option_orElse ==
  /\ pc = "idle"
  /\ \E fn \in OptionThunks(heap), self \in Options(heap) :
       Call("Option.orElse", self, <<>>, <<fn>>,
            Option_orElse(heap, fn, self))

Call_Option_transpose ==
  /\ pc = "idle"
  /\ \E self \in OptionsOfResult(heap) :
       Call("Option.transpose", self, <<>>, <<>>,
            Option_transpose(heap, self))

Call_Option_unzip ==
  /\ pc = "idle"
  /\ \E self \in OptionsOfPair(heap) :
       Call("Option.unzip", self, <<>>, <<>>,
            Option_unzip(heap, self))

Call_Option_zip ==
  /\ pc = "idle"
  /\ \E other \in Options(heap), self \in Options(heap) :
       Call("Option.zip", self, <<other>>, <<>>,
            Option_zip(heap, other, self))

Call_Option_zipWith ==
  /\ pc = "idle"
  /\ \E other \in Options(heap), fn \in PairFns, self \in Options(heap) :
       Call("Option.zipWith", self, <<other>>, <<fn>>,
            Option_zipWith(heap, other, fn, self))

Next ==
  \/ Keep
  \/ Discard
  \/ ArrayLiteral
  \/ Call_Result_Ok
  \/ Call_Result_Err
  \/ Call_Result_isOk
  \/ Call_Result_isOkAnd
  \/ Call_Result_isErr
  \/ Call_Result_isErrAnd
  \/ Call_Result_combine
  \/ Call_Result_map
  \/ Call_Result_mapErr
  \/ Call_Result_mapOr
  \/ Call_Result_mapOrElse
  \/ Call_Result_andThen
  \/ Call_Result_and
  \/ Call_Result_ok
  \/ Call_Result_inspect
  \/ Call_Result_inspectErr
  \/ Call_Result_flatten
  \/ Call_Result_intoOk
  \/ Call_Result_intoErr
  \/ Call_Result_expect
  \/ Call_Result_expectErr
  \/ Call_Result_err
  \/ Call_Result_or
  \/ Call_Result_orElse
  \/ Call_Result_transpose
  \/ Call_Result_unwrap
  \/ Call_Result_unwrapErr
  \/ Call_Result_unwrapOr
  \/ Call_Result_unwrapOrElse
  \/ Call_Option_Some
  \/ Call_Option_isSome
  \/ Call_Option_isNone
  \/ Call_Option_fromNullable
  \/ Call_Option_map
  \/ Call_Option_mapOr
  \/ Call_Option_mapOrElse
  \/ Call_Option_match
  \/ Call_Option_unwrap
  \/ Call_Option_unwrapOr
  \/ Call_Option_unwrapOrElse
  \/ Call_Option_and
  \/ Call_Option_andThen
  \/ Call_Option_expect
  \/ Call_Option_filter
  \/ Call_Option_flatten
  \/ Call_Option_inspect
  \/ Call_Option_okOr
  \/ Call_Option_okOrElse
  \/ Call_Option_or
  \/ Call_Option_orElse
  \/ Call_Option_transpose
  \/ Call_Option_unzip
  \/ Call_Option_zip
  \/ Call_Option_zipWith

Spec == Init /\ [][Next]_vars

(***************************************************************************)
(* Properties                                                              *)
(***************************************************************************)
\* a call of op has just returned (or thrown)
Returned(op) == pc = "returned" /\ last.op = op

TagOf(v) == heap[v.n]._tag
OTagOf(v) == heap[v.n].__tag

\* the positions of the failing inputs of the last combine
ErrPositions == {i \in 1..Len(last.args) : TagOf(last.args[i]) = "Err"}
FirstErrPosition == CHOOSE i \in ErrPositions : \A j \in ErrPositions : i <= j

\* C1: combine is fail-fast and first-error-wins: when at least one input is
\* an Err, combine returns an Err carrying the error of the lowest-index Err
\* input, whatever comes after it.
C1_CombineFailFast ==
  (Returned("Result.combine") /\ ErrPositions # {}) =>
    /\ ~last.raised
    /\ IsRef(last.ret)
    /\ TagOf(last.ret) = "Err"
    /\ heap[last.ret.n].error = heap[last.args[FirstErrPosition].n].error

\* combine(Err(x), Err(y), ...) with x # y returned the error x
C1_Witness ==
  /\ Returned("Result.combine")
  /\ Len(last.args) >= 2
  /\ TagOf(last.args[1]) = "Err"
  /\ TagOf(last.args[2]) = "Err"
  /\ heap[last.args[1].n].error # heap[last.args[2].n].error
  /\ IsRef(last.ret)
  /\ heap[last.ret.n].error = heap[last.args[1].n].error

\* C2: on all-Ok input combine returns an Ok of a list with exactly one value
\* per input, the i-th value being that of the i-th input (n >= 0).
C2_CombineAllOk ==
  (Returned("Result.combine") /\ ErrPositions = {}) =>
    /\ ~last.raised
    /\ IsRef(last.ret)
    /\ TagOf(last.ret) = "Ok"
    /\ IsRef(heap[last.ret.n].value)
    /\ LET list == heap[heap[last.ret.n].value.n]
       IN /\ list.isArray
          /\ Len(list.items) = Len(last.args)
          /\ \A i \in 1..Len(last.args) :
               list.items[i] = heap[last.args[i].n].value

\* combine(Ok(x), Ok(y)) with x # y returned Ok([x, y])
C2_Witness ==
  /\ Returned("Result.combine")
  /\ Len(last.args) = 2
  /\ ErrPositions = {}
  /\ heap[last.args[1].n].value # heap[last.args[2].n].value
  /\ TagOf(last.ret) = "Ok"
  /\ heap[heap[last.ret.n].value.n].items
       = <<heap[last.args[1].n].value, heap[last.args[2].n].value>>

\* the functions that are allowed to throw
Extractors == {"Result.unwrap", "Result.unwrapErr", "Result.expect",
               "Result.expectErr", "Option.unwrap", "Option.expect"}

\* C3: only the value extractors raise: every other function returns
\* normally on both variants (callbacks of the model never raise).
C3_OnlyExtractorsRaise ==
  (pc = "returned" /\ last.op \notin Extractors) => ~last.raised

\* intoOk on an Err, the wrong variant, returned undefined without raising
C3_Witness ==
  /\ Returned("Result.intoOk")
  /\ TagOf(last.self) = "Err"
  /\ ~last.raised
  /\ last.ret = Undef

\* C4: Result.unwrap / expect return the value on Ok and raise on Err,
\* Result.unwrapErr / expectErr return the error on Err and raise on Ok; the
\* message is the serialized opposite payload (unwrap, unwrapErr), or the
\* caller's message, ': ' and the serialized opposite payload (expect,
\* expectErr).
C4_ResultExtractors ==
  /\ Returned("Result.unwrap") =>
       IF TagOf(last.self) = "Ok"
       THEN ~last.raised /\ last.ret = heap[last.self.n].value
       ELSE last.raised
              /\ last.message = Stringify(heap, heap[last.self.n].error)
  /\ Returned("Result.unwrapErr") =>
       IF TagOf(last.self) = "Err"
       THEN ~last.raised /\ last.ret = heap[last.self.n].error
       ELSE last.raised
              /\ last.message = Stringify(heap, heap[last.self.n].value)
  /\ Returned("Result.expect") =>
       IF TagOf(last.self) = "Ok"
       THEN ~last.raised /\ last.ret = heap[last.self.n].value
       ELSE last.raised
              /\ last.message = last.args[1].s \o ": "
                                  \o Stringify(heap, heap[last.self.n].error)
  /\ Returned("Result.expectErr") =>
       IF TagOf(last.self) = "Err"
       THEN ~last.raised /\ last.ret = heap[last.self.n].error
       ELSE last.raised
              /\ last.message = last.args[1].s \o ": "
                                  \o Stringify(heap, heap[last.self.n].value)

\* expect("msg") on Err("a") raised 'msg: "a"'
C4_Witness ==
  /\ Returned("Result.expect")
  /\ last.args = <<Str("msg")>>
  /\ heap[last.self.n] = ErrObj(Str("a"))
  /\ last.raised
  /\ last.message = "msg: \"a\""

\* C5: Option.unwrap and Option.expect return the value on Some and raise on
\* None; expect raises exactly the caller's message, unwrap the fixed one.
C5_OptionExtractors ==
  /\ Returned("Option.unwrap") =>
       IF OTagOf(last.self) = "Some"
       THEN ~last.raised /\ last.ret = heap[last.self.n].value
       ELSE last.raised
              /\ last.message = "[Option] Tried to unwrap an 'Option.None'."
  /\ Returned("Option.expect") =>
       IF OTagOf(last.self) = "Some"
       THEN ~last.raised /\ last.ret = heap[last.self.n].value
       ELSE last.raised /\ last.message = last.args[1].s

\* expect("oh no!") on None raised exactly "oh no!"
C5_Witness ==
  /\ Returned("Option.expect")
  /\ last.self = None
  /\ last.args = <<Str("oh no!")>>
  /\ last.raised
  /\ last.message = "oh no!"

\* the functions whose declared return type is Option, resp. Result
OptionReturning == {"Result.ok", "Result.err", "Result.transpose",
                    "Option.Some", "Option.fromNullable", "Option.map",
                    "Option.mapOr", "Option.mapOrElse", "Option.match",
                    "Option.and", "Option.andThen", "Option.filter",
                    "Option.flatten", "Option.inspect", "Option.or",
                    "Option.orElse", "Option.zip", "Option.zipWith"}
ResultReturning == {"Result.Ok", "Result.Err", "Result.combine", "Result.map",
                    "Result.mapErr", "Result.mapOr", "Result.mapOrElse",
                    "Result.andThen", "Result.and", "Result.inspect",
                    "Result.inspectErr", "Result.flatten", "Result.or",
                    "Result.orElse", "Option.okOr", "Option.okOrElse",
                    "Option.transpose"}

\* exactly one of isSome / isNone, resp. isOk / isErr, is true of v
IsOneOption(v) ==
  IsRef(v) /\ (Option_isSome(heap, v) # Option_isNone(heap, v))
IsOneResult(v) ==
  IsRef(v) /\ (Result_isOk(heap, v) # Result_isErr(heap, v))

\* C6: exhaustiveness: of every Option exactly one of isSome and isNone is
\* true and of every Result exactly one of isOk and isErr, for every
\* container a constructor or a combinator produces.
C6_Exhaustive ==
  /\ \A a \in Addrs(heap) :
       ~heap[a].isArray =>
         (IsOneOption(Ref(a)) # IsOneResult(Ref(a)))
  /\ (pc = "returned" /\ last.op \in OptionReturning) => IsOneOption(last.ret)
  /\ (pc = "returned" /\ last.op \in ResultReturning) => IsOneResult(last.ret)
  /\ Returned("Option.unzip") =>
       /\ IsRef(last.ret)
       /\ heap[last.ret.n].isArray
       /\ \A i \in 1..Len(heap[last.ret.n].items) :
            IsOneOption(heap[last.ret.n].items[i])

\* Option.transpose crossed from Option to Result: on None it returned a
\* container of which isOk is true and isErr is false
C6_Witness ==
  /\ Returned("Option.transpose")
  /\ last.self = None
  /\ IsRef(last.ret)
  /\ Result_isOk(heap, last.ret)
  /\ ~Result_isErr(heap, last.ret)
  /\ ~Option_isSome(heap, last.ret)
  /\ ~Option_isNone(heap, last.ret)

\* C7: identity preservation: inspect (Option, Result) and inspectErr return
\* the reference they were given, on both variants; or and orElse return the
\* reference they were given when it is a Some / an Ok.
C7_IdentityPreserved ==
  /\ (pc = "returned"
        /\ last.op \in {"Result.inspect", "Result.inspectErr", "Option.inspect"})
       => (~last.raised /\ last.ret = last.self)
  /\ (pc = "returned" /\ last.op \in {"Result.or", "Result.orElse"}
        /\ TagOf(last.self) = "Ok")
       => (~last.raised /\ last.ret = last.self)
  /\ (pc = "returned" /\ last.op \in {"Option.or", "Option.orElse"}
        /\ OTagOf(last.self) = "Some")
       => (~last.raised /\ last.ret = last.self)

\* inspect on an Ok ran the callback and returned the Ok it was given
C7_Witness ==
  /\ Returned("Result.inspect")
  /\ TagOf(last.self) = "Ok"
  /\ Len(last.calls) = 1
  /\ last.ret = last.self

\* what the callback fn returns for value, in the heap the call started from
CallbackResult(fn, value) ==
  Invoke(SubSeq(heap, 1, last.base), fn, <<value>>, <<>>)

\* C8: short-circuit: on None / Err, andThen, map and and return self by
\* reference and never invoke f; Result.mapErr on an Ok likewise.  On Some /
\* Ok, and(other) returns other by reference and andThen(f) returns exactly
\* the container f(value) returns.
C8_ShortCircuit ==
  /\ (pc = "returned"
        /\ last.op \in {"Result.andThen", "Result.map", "Result.and"}
        /\ TagOf(last.self) = "Err")
       => (~last.raised /\ last.ret = last.self /\ last.calls = <<>>)
  /\ (pc = "returned"
        /\ last.op \in {"Option.andThen", "Option.map", "Option.and"}
        /\ OTagOf(last.self) = "None")
       => (~last.raised /\ last.ret = last.self /\ last.calls = <<>>)
  /\ (Returned("Result.mapErr") /\ TagOf(last.self) = "Ok")
       => (~last.raised /\ last.ret = last.self /\ last.calls = <<>>)
  /\ (Returned("Result.and") /\ TagOf(last.self) = "Ok")
       => (~last.raised /\ last.ret = last.args[1])
  /\ (Returned("Option.and") /\ OTagOf(last.self) = "Some")
       => (~last.raised /\ last.ret = last.args[1])
  /\ (pc = "returned" /\ last.op \in {"Result.andThen", "Option.andThen"}
        /\ (TagOf(last.self) = "Ok" \/ OTagOf(last.self) = "Some"))
       => LET r == CallbackResult(last.fns[1], heap[last.self.n].value)
          IN /\ ~last.raised
             /\ last.ret = r.ret
             /\ heap = r.heap
             /\ last.calls = r.calls

\* map(f) on an Err handed back that very Err without calling f
C8_Witness ==
  /\ Returned("Result.map")
  /\ TagOf(last.self) = "Err"
  /\ last.ret = last.self
  /\ last.calls = <<>>
  /\ Len(heap) = last.base

\* C9: inspect calls f exactly once with the contained value on Some / Ok and
\* not at all on None / Err; inspectErr calls f exactly once with the error
\* on Err and not at all on Ok; the call is made before the function returns.
C9_InspectCalls ==
  /\ Returned("Result.inspect") =>
       last.calls = IF TagOf(last.self) = "Ok"
                    THEN <<[fn |-> last.fns[1],
                            args |-> <<heap[last.self.n].value>>]>>
                    ELSE <<>>
  /\ Returned("Option.inspect") =>
       last.calls = IF OTagOf(last.self) = "Some"
                    THEN <<[fn |-> last.fns[1],
                            args |-> <<heap[last.self.n].value>>]>>
                    ELSE <<>>
  /\ Returned("Result.inspectErr") =>
       last.calls = IF TagOf(last.self) = "Err"
                    THEN <<[fn |-> last.fns[1],
                            args |-> <<heap[last.self.n].error>>]>>
                    ELSE <<>>

\* inspectErr on an Err called f once, with the error
C9_Witness ==
  /\ Returned("Result.inspectErr")
  /\ TagOf(last.self) = "Err"
  /\ Len(last.calls) = 1
  /\ last.calls[1].args = <<heap[last.self.n].error>>

\* C10: immutability: no step changes an object that exists before and after
\* it, and Option.None keeps its tag and has no payload.
C10_Immutable ==
  [][/\ \A a \in Addrs(heap) \cap Addrs(heap') : heap'[a] = heap[a]
     /\ NoneAddr \in Addrs(heap')
     /\ heap'[NoneAddr] = NoneObj]_vars

\* mapErr ran its callback on an Err and built a new Err; the Err it was
\* given still carries its own error
C10_Witness ==
  /\ Returned("Result.mapErr")
  /\ TagOf(last.self) = "Err"
  /\ Len(last.calls) = 1
  /\ last.ret # last.self
  /\ heap[last.ret.n].error = Num(2)
  /\ heap[last.self.n].error \in Prims

\* what the thunk fn returns, in the heap the call started from
ThunkResult(fn) == Invoke(SubSeq(heap, 1, last.base), fn, <<>>, <<>>)

\* the call returned a container built by the call itself, on top of heap h
FreshOn(h, obj) ==
  /\ ~last.raised
  /\ IsRef(last.ret)
  /\ last.ret.n = Len(h) + 1
  /\ heap = Append(h, obj)

\* C11: defaulting wraps: Result.mapOr and Result.mapOrElse always return an
\* Ok (of f(value) on Ok, of default resp. onErr(error) on Err), Option.mapOr,
\* Option.mapOrElse and Option.match always return a Some; mapOrElse invokes
\* exactly one of its callbacks, once, the failure one only on Err / None.
C11_DefaultingWraps ==
  /\ Returned("Result.mapOr") =>
       IF TagOf(last.self) = "Ok"
       THEN LET r == CallbackResult(last.fns[1], heap[last.self.n].value)
            IN FreshOn(r.heap, OkObj(r.ret)) /\ last.calls = r.calls
       ELSE FreshOn(SubSeq(heap, 1, last.base), OkObj(last.args[1]))
              /\ last.calls = <<>>
  /\ Returned("Result.mapOrElse") =>
       LET r == IF TagOf(last.self) = "Ok"
                THEN CallbackResult(last.fns[2], heap[last.self.n].value)
                ELSE CallbackResult(last.fns[1], heap[last.self.n].error)
       IN FreshOn(r.heap, OkObj(r.ret)) /\ last.calls = r.calls
            /\ Len(last.calls) = 1
  /\ (pc = "returned" /\ last.op \in {"Option.mapOr", "Option.match"}) =>
       IF OTagOf(last.self) = "Some"
       THEN LET r == CallbackResult(last.fns[1], heap[last.self.n].value)
            IN FreshOn(r.heap, SomeObj(r.ret)) /\ last.calls = r.calls
       ELSE FreshOn(SubSeq(heap, 1, last.base), SomeObj(last.args[1]))
              /\ last.calls = <<>>
  /\ Returned("Option.mapOrElse") =>
       LET r == IF OTagOf(last.self) = "Some"
                THEN CallbackResult(last.fns[2], heap[last.self.n].value)
                ELSE ThunkResult(last.fns[1])
       IN FreshOn(r.heap, SomeObj(r.ret)) /\ last.calls = r.calls
            /\ Len(last.calls) = 1

\* mapOrElse on an Err returned an Ok of what the failure callback made of the
\* error, and called that callback alone
C11_Witness ==
  /\ Returned("Result.mapOrElse")
  /\ TagOf(last.self) = "Err"
  /\ last.fns[1] = Fn("id", Undef)
  /\ last.fns[2] = Fn("const", Num(2))
  /\ TagOf(last.ret) = "Ok"
  /\ heap[last.ret.n].value = heap[last.self.n].error
  /\ last.calls = <<[fn |-> last.fns[1], args |-> <<heap[last.self.n].error>>]>>

\* structural equality of two values (toStrictEqual): equal primitives, or
\* objects with the same fields whose values are structurally equal
RECURSIVE DeepEq(_, _, _)
DeepEq(h, v, w) ==
  IF IsRef(v) /\ IsRef(w)
  THEN LET a == h[v.n]
           b == h[w.n]
       IN /\ a._tag = b._tag
          /\ a.__tag = b.__tag
          /\ a.isArray = b.isArray
          /\ DeepEq(h, a.value, b.value)
          /\ DeepEq(h, a.error, b.error)
          /\ Len(a.items) = Len(b.items)
          /\ \A i \in 1..Len(a.items) : DeepEq(h, a.items[i], b.items[i])
  ELSE v = w

Identity == Fn("id", Undef)

\* C12: functor identity: map(identity) of an Option or a Result, and
\* mapErr(identity) of a Result, is structurally equal to the container it
\* was applied to, on both variants.
C12_FunctorIdentity ==
  (pc = "returned" /\ last.op \in {"Option.map", "Result.map", "Result.mapErr"}
     /\ last.fns[1] = Identity)
    => (~last.raised /\ DeepEq(heap, last.ret, last.self))

\* mapErr(identity) on an Err built another Err, equal to the first
C12_Witness ==
  /\ Returned("Result.mapErr")
  /\ last.fns[1] = Identity
  /\ TagOf(last.self) = "Err"
  /\ last.ret # last.self
  /\ heap[last.ret.n] = heap[last.self.n]

\* Result.ok applied to what the last call returned
OkOfReturned == Result_ok(heap, last.ret)

\* C13: bridge round-trip: Result.ok of okOr(e) of an Option is structurally
\* equal to that Option (Some(v) gives Some(v), None gives None); the same
\* with okOrElse(() => e), which invokes its callback only on None.
C13_BridgeRoundTrip ==
  /\ (pc = "returned" /\ last.op \in {"Option.okOr", "Option.okOrElse"}) =>
       /\ ~last.raised
       /\ ~OkOfReturned.raised
       /\ DeepEq(OkOfReturned.heap, OkOfReturned.ret, last.self)
       /\ OTagOf(last.self) = "None" => OkOfReturned.ret = None
  /\ Returned("Option.okOrElse") =>
       last.calls = IF OTagOf(last.self) = "None"
                    THEN <<[fn |-> last.fns[1], args |-> <<>>]>>
                    ELSE <<>>

\* okOr(e) of a Some(v) gave an Ok(v), of which Result.ok builds a new Some(v)
C13_Witness ==
  /\ Returned("Option.okOr")
  /\ OTagOf(last.self) = "Some"
  /\ TagOf(last.ret) = "Ok"
  /\ OkOfReturned.ret # last.self
  /\ OkOfReturned.heap[OkOfReturned.ret.n] = heap[last.self.n]

\* the other transpose applied to what the last call returned
ResultTransposeOfReturned == Result_transpose(heap, last.ret)
OptionTransposeOfReturned == Option_transpose(heap, last.ret)

\* C14: transpose duality: Result.transpose of Option.transpose of o is
\* structurally equal to o, and Option.transpose of Result.transpose of r to
\* r: Some(Ok(v)) <-> Ok(Some(v)), Some(Err(e)) <-> Err(e), None <-> Ok(None).
\* Result.transpose returns None only for Ok(None), Option.transpose returns
\* an Err only for Some(Err(e)).
C14_TransposeDuality ==
  /\ Returned("Option.transpose") =>
       /\ ~last.raised
       /\ DeepEq(ResultTransposeOfReturned.heap,
                 ResultTransposeOfReturned.ret, last.self)
       /\ IF OTagOf(last.self) = "None"
          THEN TagOf(last.ret) = "Ok" /\ heap[last.ret.n].value = None
          ELSE IF TagOf(heap[last.self.n].value) = "Err"
          THEN last.ret = heap[last.self.n].value
          ELSE /\ TagOf(last.ret) = "Ok"
               /\ OTagOf(heap[last.ret.n].value) = "Some"
               /\ heap[heap[last.ret.n].value.n].value
                    = heap[heap[last.self.n].value.n].value
  /\ Returned("Result.transpose") =>
       /\ ~last.raised
       /\ DeepEq(OptionTransposeOfReturned.heap,
                 OptionTransposeOfReturned.ret, last.self)
       /\ IF TagOf(last.self) = "Err"
          THEN OTagOf(last.ret) = "Some" /\ heap[last.ret.n].value = last.self
          ELSE IF OTagOf(heap[last.self.n].value) = "None"
          THEN last.ret = None
          ELSE /\ OTagOf(last.ret) = "Some"
               /\ TagOf(heap[last.ret.n].value) = "Ok"
               /\ heap[heap[last.ret.n].value.n].value
                    = heap[heap[last.self.n].value.n].value

\* Option.transpose turned a Some(Ok(v)) into an Ok(Some(v)), which
\* Result.transpose turns back into a Some(Ok(v))
C14_Witness ==
  /\ Returned("Option.transpose")
  /\ OTagOf(last.self) = "Some"
  /\ TagOf(heap[last.self.n].value) = "Ok"
  /\ TagOf(last.ret) = "Ok"
  /\ OTagOf(heap[last.ret.n].value) = "Some"
  /\ ResultTransposeOfReturned.ret # last.self
  /\ DeepEq(ResultTransposeOfReturned.heap,
            ResultTransposeOfReturned.ret, last.self)

\* the heap the last call started from
HeapBefore == SubSeq(heap, 1, last.base)

\* both operands of the last zip / zipWith are Some
BothSome == OTagOf(last.self) = "Some" /\ OTagOf(last.args[1]) = "Some"

\* C15: zip returns Some([a, b]) and zipWith Some(f(a, b)) exactly when self
\* is Some(a) and other is Some(b); otherwise the result is None (self is
\* tested first) and zipWith does not invoke f.
C15_ZipBoth ==
  /\ Returned("Option.zip") =>
       /\ ~last.raised
       /\ last.calls = <<>>
       /\ IF BothSome
          THEN /\ last.ret = Ref(last.base + 2)
               /\ heap = HeapBefore
                           \o <<ArrayObj(<<heap[last.self.n].value,
                                           heap[last.args[1].n].value>>),
                                SomeObj(Ref(last.base + 1))>>
          ELSE /\ OTagOf(last.ret) = "None"
               /\ last.ret = IF OTagOf(last.self) = "None" THEN last.self
                             ELSE last.args[1]
               /\ heap = HeapBefore
  /\ Returned("Option.zipWith") =>
       /\ ~last.raised
       /\ IF BothSome
          THEN LET r == Invoke(HeapBefore, last.fns[1],
                               <<heap[last.self.n].value,
                                 heap[last.args[1].n].value>>, <<>>)
               IN FreshOn(r.heap, SomeObj(r.ret)) /\ last.calls = r.calls
                    /\ Len(last.calls) = 1
          ELSE /\ OTagOf(last.ret) = "None"
               /\ last.ret = IF OTagOf(last.self) = "None" THEN last.self
                             ELSE last.args[1]
               /\ last.calls = <<>>
               /\ heap = HeapBefore

\* zip of Some(a) and Some(b) with a # b returned Some([a, b])
C15_Witness ==
  /\ Returned("Option.zip")
  /\ BothSome
  /\ heap[last.self.n].value # heap[last.args[1].n].value
  /\ OTagOf(last.ret) = "Some"
  /\ heap[heap[last.ret.n].value.n].items
       = <<heap[last.self.n].value, heap[last.args[1].n].value>>

\* C16: flatten removes exactly one level: Result.flatten(Ok(inner)) returns
\* inner itself, Result.flatten(Err(e)) an Err carrying e, so the result is
\* Ok only when both layers are Ok; Option.flatten(Some(inner)) returns inner
\* itself and Option.flatten(None) returns None.
C16_FlattenOneLevel ==
  /\ Returned("Result.flatten") =>
       /\ ~last.raised
       /\ heap = HeapBefore
       /\ IF TagOf(last.self) = "Ok"
          THEN last.ret = heap[last.self.n].value
          ELSE TagOf(last.ret) = "Err"
                 /\ heap[last.ret.n].error = heap[last.self.n].error
       /\ TagOf(last.ret) = "Ok"
            <=> (TagOf(last.self) = "Ok"
                   /\ TagOf(heap[last.self.n].value) = "Ok")
  /\ Returned("Option.flatten") =>
       /\ ~last.raised
       /\ heap = HeapBefore
       /\ last.ret = IF OTagOf(last.self) = "Some"
                     THEN heap[last.self.n].value ELSE None

\* flatten of an Ok holding an Err returned that inner Err
C16_Witness ==
  /\ Returned("Result.flatten")
  /\ TagOf(last.self) = "Ok"
  /\ TagOf(heap[last.self.n].value) = "Err"
  /\ last.ret = heap[last.self.n].value
  /\ last.ret # last.self

\* the caller's view of what a callback did: its result, the heap it left
\* and the one invocation logged
SameAsCallback(r) ==
  /\ ~last.raised
  /\ last.ret = r.ret
  /\ heap = r.heap
  /\ last.calls = r.calls
  /\ Len(last.calls) = 1

\* C17: fallback branch: on Err, Result.or(other) returns other by reference
\* and Result.orElse(f) the container f(error), f invoked once on the error;
\* on None, Option.or(default) returns default by reference and
\* Option.orElse(f) returns f().  On Ok / Some, orElse never invokes f.
C17_Fallback ==
  /\ (Returned("Result.or") /\ TagOf(last.self) = "Err") =>
       (~last.raised /\ last.ret = last.args[1] /\ heap = HeapBefore)
  /\ (Returned("Option.or") /\ OTagOf(last.self) = "None") =>
       (~last.raised /\ last.ret = last.args[1] /\ heap = HeapBefore)
  /\ Returned("Result.orElse") =>
       IF TagOf(last.self) = "Err"
       THEN SameAsCallback(CallbackResult(last.fns[1], heap[last.self.n].error))
       ELSE last.calls = <<>>
  /\ Returned("Option.orElse") =>
       IF OTagOf(last.self) = "None"
       THEN SameAsCallback(ThunkResult(last.fns[1]))
       ELSE last.calls = <<>>

\* orElse(Result.Ok) on an Err(e) called the callback once with e and
\* returned the Ok(e) the callback built
C17_Witness ==
  /\ Returned("Result.orElse")
  /\ TagOf(last.self) = "Err"
  /\ last.fns[1] = Fn("Ok", Undef)
  /\ last.calls = <<[fn |-> last.fns[1], args |-> <<heap[last.self.n].error>>]>>
  /\ TagOf(last.ret) = "Ok"
  /\ heap[last.ret.n].value = heap[last.self.n].error

\* Result.err applied to the receiver of the last call, as it was before
\* that call
ErrOfSelf == Result_err(HeapBefore, last.self)

\* the last call returned the shared None and built nothing
ReturnedNone == ~last.raised /\ last.ret = None /\ heap = HeapBefore

\* C18: Result.ok(r) is a Some of the value when r is Ok and None when r is
\* Err; Result.err(r) is a Some of the error when r is Err and None when r is
\* Ok; so of Result.ok(r) and Result.err(r) exactly one is a Some.
C18_Bridges ==
  /\ Returned("Result.ok") =>
       /\ IF TagOf(last.self) = "Ok"
          THEN FreshOn(HeapBefore, SomeObj(heap[last.self.n].value))
          ELSE ReturnedNone
       /\ ~ErrOfSelf.raised
       /\ Option_isSome(heap, last.ret)
            # Option_isSome(ErrOfSelf.heap, ErrOfSelf.ret)
  /\ Returned("Result.err") =>
       /\ IF TagOf(last.self) = "Err"
          THEN FreshOn(HeapBefore, SomeObj(heap[last.self.n].error))
          ELSE ReturnedNone
       /\ last.ret = ErrOfSelf.ret
       /\ heap = ErrOfSelf.heap

\* Result.ok of an Ok gave a new Some of its value, and Result.err of the
\* same Ok is None
C18_Witness ==
  /\ Returned("Result.ok")
  /\ TagOf(last.self) = "Ok"
  /\ OTagOf(last.ret) = "Some"
  /\ heap[last.ret.n].value = heap[last.self.n].value
  /\ ErrOfSelf.ret = None

\* the last call handed out v without raising, building or calling anything
Plain(v) ==
  /\ ~last.raised
  /\ last.ret = v
  /\ heap = HeapBefore
  /\ last.calls = <<>>

\* C19: intoOk and intoErr never raise: intoOk returns the value on Ok and
\* undefined on Err; intoErr returns the error on Err and undefined on Ok.
C19_EscapeHatches ==
  /\ Returned("Result.intoOk") =>
       Plain(IF TagOf(last.self) = "Ok"
             THEN heap[last.self.n].value ELSE Undef)
  /\ Returned("Result.intoErr") =>
       Plain(IF TagOf(last.self) = "Err"
             THEN heap[last.self.n].error ELSE Undef)

\* intoErr of an Ok returned undefined without raising
C19_Witness ==
  /\ Returned("Result.intoErr")
  /\ TagOf(last.self) = "Ok"
  /\ heap[last.self.n].value # Undef
  /\ last.ret = Undef
  /\ ~last.raised

\* C20: the defaulting extractors never raise: unwrapOr(default) returns the
\* contained value on Some / Ok and default on None / Err; unwrapOrElse(f)
\* returns the contained value on Some / Ok without invoking f, and on None /
\* Err returns f() (Option) resp. f(error) (Result), f invoked exactly once.
C20_DefaultingExtractors ==
  /\ Returned("Option.unwrapOr") =>
       Plain(IF OTagOf(last.self) = "Some"
             THEN heap[last.self.n].value ELSE last.args[1])
  /\ Returned("Result.unwrapOr") =>
       Plain(IF TagOf(last.self) = "Ok"
             THEN heap[last.self.n].value ELSE last.args[1])
  /\ Returned("Option.unwrapOrElse") =>
       IF OTagOf(last.self) = "Some"
       THEN Plain(heap[last.self.n].value)
       ELSE SameAsCallback(ThunkResult(last.fns[1]))
  /\ Returned("Result.unwrapOrElse") =>
       IF TagOf(last.self) = "Ok"
       THEN Plain(heap[last.self.n].value)
       ELSE SameAsCallback(CallbackResult(last.fns[1], heap[last.self.n].error))

\* unwrapOrElse of a Some returned its value and never called the thunk
C20_Witness ==
  /\ Returned("Option.unwrapOrElse")
  /\ OTagOf(last.self) = "Some"
  /\ last.ret = heap[last.self.n].value
  /\ last.ret # Num(2)
  /\ last.fns[1] = Fn("const", Num(2))
  /\ last.calls = <<>>

\* unwrapOrElse of an Err returned what the callback made of the error, after
\* one call
C20_WitnessErr ==
  /\ Returned("Result.unwrapOrElse")
  /\ TagOf(last.self) = "Err"
  /\ last.fns[1] = Fn("id", Undef)
  /\ Len(last.calls) = 1
  /\ last.ret = heap[last.self.n].error

\* what the predicate of the last call says of value
PredicateOn(value) == CallbackResult(last.fns[1], value)

\* C21: isOkAnd(p)(r) is true exactly when r is Ok and p(value) is true, and
\* false on every Err without invoking p; isErrAnd(p)(r) is true exactly when
\* r is Err and p(error) is true, and false on every Ok without invoking p.
C21_GuardedPredicates ==
  /\ Returned("Result.isOkAnd") =>
       /\ IF TagOf(last.self) = "Err"
          THEN Plain(Bool(FALSE))
          ELSE SameAsCallback(PredicateOn(heap[last.self.n].value))
       /\ last.ret = Bool(TRUE)
            <=> (TagOf(last.self) = "Ok"
                   /\ PredicateOn(heap[last.self.n].value).ret = Bool(TRUE))
  /\ Returned("Result.isErrAnd") =>
       /\ IF TagOf(last.self) = "Ok"
          THEN Plain(Bool(FALSE))
          ELSE SameAsCallback(PredicateOn(heap[last.self.n].error))
       /\ last.ret = Bool(TRUE)
            <=> (TagOf(last.self) = "Err"
                   /\ PredicateOn(heap[last.self.n].error).ret = Bool(TRUE))

\* isErrAnd(() => true) of an Ok is false and the predicate was not called
C21_Witness ==
  /\ Returned("Result.isErrAnd")
  /\ TagOf(last.self) = "Ok"
  /\ last.fns[1] = Fn("const", Bool(TRUE))
  /\ last.ret = Bool(FALSE)
  /\ last.calls = <<>>

\* isOkAnd(isNumber) of an Ok("a") is false after one call of the predicate
C21_WitnessRejected ==
  /\ Returned("Result.isOkAnd")
  /\ TagOf(last.self) = "Ok"
  /\ heap[last.self.n].value = Str("a")
  /\ last.fns[1] = Fn("isNumber", Undef)
  /\ last.ret = Bool(FALSE)
  /\ Len(last.calls) = 1

\* C22: Option.filter(pred)(self) returns self itself when self is Some and
\* pred(value) is true, and None when self is Some with pred(value) false or
\* when self is None; pred is never invoked when self is None.
C22_Filter ==
  Returned("Option.filter") =>
    /\ ~last.raised
    /\ heap = HeapBefore
    /\ IF OTagOf(last.self) = "None"
       THEN last.ret = None /\ last.ret = last.self /\ last.calls = <<>>
       ELSE /\ last.calls = PredicateOn(heap[last.self.n].value).calls
            /\ Len(last.calls) = 1
            /\ last.ret = IF Truthy(PredicateOn(heap[last.self.n].value).ret)
                          THEN last.self ELSE None

\* filter(isNumber) of Some(1) returned that Some; the predicate ran once
C22_Witness ==
  /\ Returned("Option.filter")
  /\ OTagOf(last.self) = "Some"
  /\ heap[last.self.n].value = Num(1)
  /\ last.fns[1] = Fn("isNumber", Undef)
  /\ last.ret = last.self
  /\ Len(last.calls) = 1

\* filter(isNumber) of Some("a") returned None
C22_WitnessRejected ==
  /\ Returned("Option.filter")
  /\ OTagOf(last.self) = "Some"
  /\ heap[last.self.n].value = Str("a")
  /\ last.ret = None

\* the functions that derive a container from containers
Combinators ==
  (OptionReturning \cup ResultReturning)
    \ {"Result.Ok", "Result.Err", "Option.Some", "Option.fromNullable"}

\* the last call was of a combinator and returned a container
ReturnedContainer ==
  pc = "returned" /\ last.op \in Combinators /\ ~last.raised /\ IsRef(last.ret)

\* the containers passed to the last call: self, other or default, and for
\* combine the results of the list
InputContainers ==
  {v \in {last.self} \cup {last.args[i] : i \in DOMAIN last.args} : IsRef(v)}

\* the returned container was built by the last call
Fresh == last.ret.n > last.base

\* the combinators that hand out the container self holds
Unwrapping == {"Result.flatten", "Option.flatten",
               "Result.transpose", "Option.transpose"}
HeldInSelf ==
  /\ last.op \in Unwrapping
  /\ last.ret \in {heap[last.self.n].value, heap[last.self.n].error}

\* what the callbacks of the last call returned
CallbackReturns ==
  {Invoke(HeapBefore, last.calls[i].fn, last.calls[i].args, <<>>).ret :
     i \in DOMAIN last.calls}

\* C23 as stated: every container a combinator returns is one of the
\* containers passed to the call or was built by the call.
C23_InputOrFresh_Original ==
  ReturnedContainer => (last.ret \in InputContainers \/ Fresh)

\* C23, amended: every container a combinator returns is one of the
\* containers passed to the call (self, other or default), the shared
\* Option.None, the container self holds (flatten and transpose only), the
\* container a callback of the call returned, or was built by the call.
C23_InputOrFresh ==
  ReturnedContainer =>
    \/ last.ret \in InputContainers
    \/ last.ret = None
    \/ HeldInSelf
    \/ last.ret \in CallbackReturns
    \/ Fresh

\* filter(isNumber) of Some("a") returned the shared None, which is neither
\* the Some it was given nor new
C23_Witness ==
  /\ Returned("Option.filter")
  /\ OTagOf(last.self) = "Some"
  /\ last.args = <<>>
  /\ last.ret = None
  /\ last.ret # last.self
  /\ ~Fresh

(***************************************************************************)
(* Duration (packages/duration).  A JavaScript number is kept as the       *)
(* fraction num / den in lowest terms with den > 0 (divide yields          *)
(* fractions of a millisecond), or as one of the three values that are no  *)
(* fractions: Infinity is 1 / 0, -Infinity is -1 / 0 and NaN is 0 / 0.     *)
(* The arithmetic and the comparisons follow IEEE 754 on them.  The finite *)
(* quotients of the model are powers of two, for which floating-point      *)
(* division is exact; -0 is not told from 0.                               *)
(***************************************************************************)
Abs(n) == IF n < 0 THEN -n ELSE n

RECURSIVE GCD(_, _)
GCD(a, b) == IF b = 0 THEN a ELSE GCD(b, a % b)

NaN == [num |-> 0, den |-> 0]
Infinity == [num |-> 1, den |-> 0]

\* the number n / d; n / 0 is Infinity, -Infinity or NaN by the sign of n
Number(n, d) ==
  IF d = 0
  THEN [num |-> IF n > 0 THEN 1 ELSE IF n < 0 THEN -1 ELSE 0, den |-> 0]
  ELSE LET sign == IF d < 0 THEN -1 ELSE 1
           g == GCD(Abs(n), Abs(d))
       IN [num |-> (sign * n) \div g, den |-> (sign * d) \div g]

Integer(n) == Number(n, 1)

IsNaN(a) == a.den = 0 /\ a.num = 0
IsFinite(a) == a.den # 0
\* -1, 0 or 1
Sign(a) == IF a.num > 0 THEN 1 ELSE IF a.num < 0 THEN -1 ELSE 0

Negate(a) == [num |-> -a.num, den |-> a.den]

\* a + b: NaN is contagious and Infinity + -Infinity is NaN
Plus(a, b) ==
  IF IsNaN(a) \/ IsNaN(b) THEN NaN
  ELSE IF ~IsFinite(a) THEN (IF ~IsFinite(b) /\ b # a THEN NaN ELSE a)
  ELSE IF ~IsFinite(b) THEN b
  ELSE Number(a.num * b.den + b.num * a.den, a.den * b.den)

\* a - b
Minus(a, b) == Plus(a, Negate(b))

\* a * b: 0 * Infinity is NaN
Times(a, b) ==
  IF IsNaN(a) \/ IsNaN(b) THEN NaN
  ELSE IF ~IsFinite(a) \/ ~IsFinite(b) THEN Number(Sign(a) * Sign(b), 0)
  ELSE Number(a.num * b.num, a.den * b.den)

\* a / b: Infinity / Infinity and 0 / 0 are NaN, x / Infinity is 0 and
\* x / 0 is an infinity
Over(a, b) ==
  IF IsNaN(a) \/ IsNaN(b) THEN NaN
  ELSE IF ~IsFinite(a)
    THEN (IF ~IsFinite(b) THEN NaN
          ELSE Number(Sign(a) * (IF Sign(b) < 0 THEN -1 ELSE 1), 0))
  ELSE IF ~IsFinite(b) THEN Integer(0)
  ELSE Number(a.num * b.den, a.den * b.num)

\* the comparisons; every comparison with NaN is false
LessThan(a, b) ==
  /\ ~IsNaN(a) /\ ~IsNaN(b)
  /\ IF ~IsFinite(a) /\ ~IsFinite(b) THEN a.num < b.num
     ELSE a.num * b.den < b.num * a.den
GreaterThan(a, b) ==
  /\ ~IsNaN(a) /\ ~IsNaN(b)
  /\ IF ~IsFinite(a) /\ ~IsFinite(b) THEN a.num > b.num
     ELSE a.num * b.den > b.num * a.den
LessThanOrEqual(a, b) ==
  /\ ~IsNaN(a) /\ ~IsNaN(b)
  /\ IF ~IsFinite(a) /\ ~IsFinite(b) THEN a.num <= b.num
     ELSE a.num * b.den <= b.num * a.den
GreaterThanOrEqual(a, b) ==
  /\ ~IsNaN(a) /\ ~IsNaN(b)
  /\ IF ~IsFinite(a) /\ ~IsFinite(b) THEN a.num >= b.num
     ELSE a.num * b.den >= b.num * a.den
\* a === b: NaN is not equal to itself
StrictEquals(a, b) == ~IsNaN(a) /\ ~IsNaN(b) /\ a = b

\* Math.floor leaves NaN and the infinities as they are
Math_floor(a) == IF IsFinite(a) THEN Integer(a.num \div a.den) ELSE a

\* a ?? b
Coalesce(a, b) == IF a \in {Null, Undef} THEN b ELSE a

MILLISECONDS_PER_DAY == 1000 * 60 * 60 * 24
MILLISECONDS_PER_HOUR == 1000 * 60 * 60
MILLISECONDS_PER_MINUTE == 1000 * 60
MILLISECONDS_PER_SECOND == 1000
HOURS_PER_DAY == 24
MINUTES_PER_HOUR == 60
MINUTES_PER_DAY == 24 * 60
SECONDS_PER_MINUTE == 60
SECONDS_PER_HOUR == 24 * 60
SECONDS_PER_DAY == 24 * 60 * 60

_getDaysSpan(milliseconds) ==
  Math_floor(Over(milliseconds, Integer(MILLISECONDS_PER_DAY)))
_getHoursSpan(milliseconds) ==
  Math_floor(Over(milliseconds, Integer(MILLISECONDS_PER_HOUR)))
_getMinutesSpan(milliseconds) ==
  Math_floor(Over(milliseconds, Integer(MILLISECONDS_PER_MINUTE)))
_getSecondsSpan(milliseconds) ==
  Math_floor(Over(milliseconds, Integer(MILLISECONDS_PER_SECOND)))

\* the object _milliseconds builds
DurationObj(milliseconds) ==
  [_milliseconds |-> milliseconds,
   inDays |-> _getDaysSpan(milliseconds),
   inHours |-> _getHoursSpan(milliseconds),
   inMinutes |-> _getMinutesSpan(milliseconds),
   inSeconds |-> _getSecondsSpan(milliseconds),
   inMilliseconds |-> milliseconds,
   isNegative |-> LessThan(milliseconds, Integer(1))]

_milliseconds(h, milliseconds) ==
  New(h, DurationObj(milliseconds), <<>>)

Duration_from(h, obj) ==
  _milliseconds(h,
    Plus(Plus(Plus(Plus(
      Times(Integer(MILLISECONDS_PER_DAY), Coalesce(obj.days, Integer(0))),
      Times(Integer(MILLISECONDS_PER_HOUR), Coalesce(obj.hours, Integer(0)))),
      Times(Integer(MILLISECONDS_PER_MINUTE), Coalesce(obj.minutes, Integer(0)))),
      Times(Integer(MILLISECONDS_PER_SECOND), Coalesce(obj.seconds, Integer(0)))),
      Coalesce(obj.milliseconds, Integer(0))))

Duration_abs(h, self) ==
  IF h[self.n].isNegative
  THEN _milliseconds(h, Times(h[self.n]._milliseconds, Integer(-1)))
  ELSE Return(h, self, <<>>)

Duration_difference(h, other, self) ==
  _milliseconds(h, Minus(h[self.n]._milliseconds, h[other.n]._milliseconds))

Duration_inverse(h, self) ==
  _milliseconds(h, Negate(h[self.n]._milliseconds))

Duration_add(h, other, self) ==
  _milliseconds(h, Plus(h[self.n]._milliseconds, h[other.n]._milliseconds))

Duration_subtract(h, other, self) ==
  _milliseconds(h, Minus(h[self.n]._milliseconds, h[other.n]._milliseconds))

Duration_multiply(h, factor, self) ==
  _milliseconds(h, Times(h[self.n]._milliseconds, factor))

\* new IntegerDivisionByZeroError()
IntegerDivisionByZeroError == [name |-> "IntegerDivisionByZeroError"]

\* divide as it would be if it threw on a zero quotient
Duration_divide_throws(h, quotient, self) ==
  IF StrictEquals(quotient, Integer(0))
  THEN Throw(h, "IntegerDivisionByZeroError", <<>>)
  ELSE LET d == _milliseconds(h, Over(h[self.n]._milliseconds, quotient))
       IN Result_Ok(d.heap, d.ret)

Duration_divide(h, quotient, self) ==
  IF StrictEquals(quotient, Integer(0))
  THEN LET e == New(h, IntegerDivisionByZeroError, <<>>)
       IN Result_Err(e.heap, e.ret)
  ELSE LET d == _milliseconds(h, Over(h[self.n]._milliseconds, quotient))
       IN Result_Ok(d.heap, d.ret)

Duration_isLesserThan(h, other, self) ==
  Return(h, Bool(LessThan(h[self.n]._milliseconds, h[other.n]._milliseconds)), <<>>)

Duration_isGreaterThan(h, other, self) ==
  Return(h, Bool(GreaterThan(h[self.n]._milliseconds, h[other.n]._milliseconds)), <<>>)

Duration_isEqual(h, other, self) ==
  Return(h, Bool(StrictEquals(h[self.n]._milliseconds, h[other.n]._milliseconds)), <<>>)

Duration_isLesserThanOrEqual(h, other, self) ==
  Return(h, Bool(LessThanOrEqual(h[self.n]._milliseconds, h[other.n]._milliseconds)), <<>>)

\* isGreaterThanOrEqual as it would be with > for >=
Duration_isGreaterThanOrEqual_strict(h, other, self) ==
  Return(h, Bool(GreaterThan(h[self.n]._milliseconds, h[other.n]._milliseconds)), <<>>)

Duration_isGreaterThanOrEqual(h, other, self) ==
  Return(h, Bool(GreaterThanOrEqual(h[self.n]._milliseconds, h[other.n]._milliseconds)), <<>>)

(***************************************************************************)
(* The inputs a caller can hand to the Duration functions.                 *)
(***************************************************************************)
\* the Durations the caller holds
Durations(h) == {Ref(a) : a \in 1..Len(h)}

\* DurationConstructor objects; a field left out reads as undefined
DurationConstructors ==
  [days : {Undef, Integer(1)},
   hours : {Undef, Integer(2)},
   minutes : {Undef, Integer(3)},
   seconds : {Undef, Integer(4)},
   milliseconds : {Undef, NaN} \cup
                  {Integer(m) : m \in (-MaxMilliseconds)..MaxMilliseconds}]

Factors == {Integer(0), Integer(2), Integer(-1), Infinity}
Quotients == {Integer(0), Integer(2)}

(***************************************************************************)
(* State machine of the Duration functions: heap holds the Durations the   *)
(* caller has kept, and during a call what the call built on top of them.  *)
(***************************************************************************)
DurationInit ==
  /\ heap = <<>>
  /\ pc = "idle"
  /\ last = NoCall

\* the Duration at address a is one the caller may hold on to
Holdable(a) ==
  /\ a <= MaxDurations
  /\ IsFinite(heap[a]._milliseconds) =>
       /\ heap[a]._milliseconds.den <= MaxDenominator
       /\ Abs(heap[a]._milliseconds.num)
            <= MaxMilliseconds * heap[a]._milliseconds.den

\* the caller holds on to the Duration the call built
KeepDuration ==
  /\ pc = "returned"
  /\ last.op # "Duration.divide"
  /\ Len(heap) = last.base + 1
  /\ Holdable(Len(heap))
  /\ pc' = "idle"
  /\ last' = NoCall
  /\ UNCHANGED heap

\* the caller takes the Duration out of the Ok that divide returned and
\* holds on to it
KeepQuotient ==
  /\ pc = "returned"
  /\ last.op = "Duration.divide"
  /\ Result_isOk(heap, last.ret)
  /\ Holdable(last.base + 1)
  /\ pc' = "idle"
  /\ last' = NoCall
  /\ heap' = SubSeq(heap, 1, last.base + 1)

Call_Duration_from ==
  /\ pc = "idle"
  /\ \E obj \in DurationConstructors :
       Call("Duration.from", Undef, <<obj>>, <<>>, Duration_from(heap, obj))

Call_Duration_abs ==
  /\ pc = "idle"
  /\ \E self \in Durations(heap) :
       Call("Duration.abs", self, <<>>, <<>>, Duration_abs(heap, self))

Call_Duration_add ==
  /\ pc = "idle"
  /\ \E other \in Durations(heap), self \in Durations(heap) :
       Call("Duration.add", self, <<other>>, <<>>,
            Duration_add(heap, other, self))

Call_Duration_difference ==
  /\ pc = "idle"
  /\ \E other \in Durations(heap), self \in Durations(heap) :
       Call("Duration.difference", self, <<other>>, <<>>,
            Duration_difference(heap, other, self))

Call_Duration_divide ==
  /\ pc = "idle"
  /\ \E quotient \in Quotients, self \in Durations(heap) :
       Call("Duration.divide", self, <<quotient>>, <<>>,
            Duration_divide(heap, quotient, self))

Call_Duration_inverse ==
  /\ pc = "idle"
  /\ \E self \in Durations(heap) :
       Call("Duration.inverse", self, <<>>, <<>>, Duration_inverse(heap, self))

Call_Duration_multiply ==
  /\ pc = "idle"
  /\ \E factor \in Factors, self \in Durations(heap) :
       Call("Duration.multiply", self, <<factor>>, <<>>,
            Duration_multiply(heap, factor, self))

Call_Duration_subtract ==
  /\ pc = "idle"
  /\ \E other \in Durations(heap), self \in Durations(heap) :
       Call("Duration.subtract", self, <<other>>, <<>>,
            Duration_subtract(heap, other, self))

Call_Duration_isEqual ==
  /\ pc = "idle"
  /\ \E other \in Durations(heap), self \in Durations(heap) :
       Call("Duration.isEqual", self, <<other>>, <<>>,
            Duration_isEqual(heap, other, self))

Call_Duration_isGreaterThan ==
  /\ pc = "idle"
  /\ \E other \in Durations(heap), self \in Durations(heap) :
       Call("Duration.isGreaterThan", self, <<other>>, <<>>,
            Duration_isGreaterThan(heap, other, self))

Call_Duration_isGreaterThanOrEqual ==
  /\ pc = "idle"
  /\ \E other \in Durations(heap), self \in Durations(heap) :
       Call("Duration.isGreaterThanOrEqual", self, <<other>>, <<>>,
            Duration_isGreaterThanOrEqual(heap, other, self))

Call_Duration_isLesserThan ==
  /\ pc = "idle"
  /\ \E other \in Durations(heap), self \in Durations(heap) :
       Call("Duration.isLesserThan", self, <<other>>, <<>>,
            Duration_isLesserThan(heap, other, self))

Call_Duration_isLesserThanOrEqual ==
  /\ pc = "idle"
  /\ \E other \in Durations(heap), self \in Durations(heap) :
       Call("Duration.isLesserThanOrEqual", self, <<other>>, <<>>,
            Duration_isLesserThanOrEqual(heap, other, self))

DurationNext ==
  \/ KeepDuration
  \/ KeepQuotient
  \/ Discard
  \/ Call_Duration_from
  \/ Call_Duration_abs
  \/ Call_Duration_add
  \/ Call_Duration_difference
  \/ Call_Duration_divide
  \/ Call_Duration_inverse
  \/ Call_Duration_multiply
  \/ Call_Duration_subtract
  \/ Call_Duration_isEqual
  \/ Call_Duration_isGreaterThan
  \/ Call_Duration_isGreaterThanOrEqual
  \/ Call_Duration_isLesserThan
  \/ Call_Duration_isLesserThanOrEqual

DurationSpec == DurationInit /\ [][DurationNext]_vars

(***************************************************************************)
(* Properties of Duration                                                  *)
(***************************************************************************)
\* the millisecond count of the Duration v refers to
MillisecondsOf(v) == heap[v.n]._milliseconds

\* C24: divide reports division by zero as data: divide(0)(d) returns an Err
\* carrying an IntegerDivisionByZeroError and does not raise; for a non-zero
\* quotient q, divide(q)(d) returns an Ok whose duration has d.ms / q
\* milliseconds.
C24_DivideByZeroIsData ==
  Returned("Duration.divide") =>
    /\ ~last.raised
    /\ IsRef(last.ret)
    /\ IF last.args[1] = Integer(0)
       THEN /\ TagOf(last.ret) = "Err"
            /\ IsRef(heap[last.ret.n].error)
            /\ heap[heap[last.ret.n].error.n] = IntegerDivisionByZeroError
       ELSE /\ TagOf(last.ret) = "Ok"
            /\ IsRef(heap[last.ret.n].value)
            /\ Times(MillisecondsOf(heap[last.ret.n].value), last.args[1])
                 = MillisecondsOf(last.self)

\* divide(0) of a Duration returned an Err holding the error object
C24_Witness ==
  /\ Returned("Duration.divide")
  /\ last.args[1] = Integer(0)
  /\ ~last.raised
  /\ TagOf(last.ret) = "Err"
  /\ heap[heap[last.ret.n].error.n] = IntegerDivisionByZeroError

\* divide(2) of 1 ms returned an Ok holding half a millisecond
C24_WitnessHalf ==
  /\ Returned("Duration.divide")
  /\ last.args[1] = Integer(2)
  /\ MillisecondsOf(last.self) = Integer(1)
  /\ TagOf(last.ret) = "Ok"
  /\ MillisecondsOf(heap[last.ret.n].value) = Number(1, 2)

\* C25: abs of a duration with negative milliseconds returns a duration
\* whose milliseconds is the negation of the input's; abs of a duration that
\* is already positive returns the input itself, unmodified; the result of
\* abs never has negative milliseconds.
C25_Abs ==
  Returned("Duration.abs") =>
    /\ ~last.raised
    /\ LessThan(MillisecondsOf(last.self), Integer(0)) =>
         MillisecondsOf(last.ret) = Negate(MillisecondsOf(last.self))
    /\ GreaterThan(MillisecondsOf(last.self), Integer(0)) =>
         (last.ret = last.self /\ heap = HeapBefore)
    /\ ~LessThan(MillisecondsOf(last.ret), Integer(0))

\* the comparisons of the Durations a and b, a being self
IsLesser(a, b) == Duration_isLesserThan(HeapBefore, b, a).ret = Bool(TRUE)
IsGreater(a, b) == Duration_isGreaterThan(HeapBefore, b, a).ret = Bool(TRUE)
IsEqual(a, b) == Duration_isEqual(HeapBefore, b, a).ret = Bool(TRUE)
IsLesserOrEqual(a, b) ==
  Duration_isLesserThanOrEqual(HeapBefore, b, a).ret = Bool(TRUE)
IsGreaterOrEqual(a, b) ==
  Duration_isGreaterThanOrEqual(HeapBefore, b, a).ret = Bool(TRUE)

Comparisons == {"Duration.isLesserThan", "Duration.isGreaterThan",
                "Duration.isEqual", "Duration.isLesserThanOrEqual",
                "Duration.isGreaterThanOrEqual"}

\* exactly one of three
ExactlyOne(p, q, r) ==
  (p /\ ~q /\ ~r) \/ (~p /\ q /\ ~r) \/ (~p /\ ~q /\ r)

\* the millisecond count of neither a nor b is NaN
Comparable(a, b) == ~IsNaN(MillisecondsOf(a)) /\ ~IsNaN(MillisecondsOf(b))

\* how the answer of the last comparison, of a with b, stands to the other
\* comparisons of the same two Durations; ordered tells whether exactly one
\* of lesser, equal, greater is asked for
ComparisonsAgree(a, b, answer, ordered) ==
  /\ ~last.raised
  /\ last.ret \in {Bool(TRUE), Bool(FALSE)}
  /\ heap = HeapBefore
  /\ last.op = "Duration.isLesserThan" =>
       /\ ordered => ExactlyOne(answer, IsEqual(a, b), IsGreater(a, b))
       /\ answer <=> IsGreater(b, a)
  /\ last.op = "Duration.isEqual" =>
       (ordered => ExactlyOne(IsLesser(a, b), answer, IsGreater(a, b)))
  /\ last.op = "Duration.isGreaterThan" =>
       /\ ordered => ExactlyOne(IsLesser(a, b), IsEqual(a, b), answer)
       /\ answer <=> IsLesser(b, a)
  /\ last.op = "Duration.isLesserThanOrEqual" =>
       (answer <=> (IsLesser(a, b) \/ IsEqual(a, b)))
  /\ last.op = "Duration.isGreaterThanOrEqual" =>
       (answer <=> (IsGreater(a, b) \/ IsEqual(a, b)))

\* C26 as stated: the comparisons form a consistent total order on the
\* millisecond count: for all durations a and b, of isLesserThan(b)(a),
\* isEqual(b)(a), isGreaterThan(b)(a) exactly one is true;
\* isLesserThanOrEqual(b)(a) is isLesserThan(b)(a) or isEqual(b)(a);
\* isGreaterThanOrEqual(b)(a) is isGreaterThan(b)(a) or isEqual(b)(a); and
\* isLesserThan(b)(a) is isGreaterThan(a)(b).
C26_TotalOrder_Original ==
  (pc = "returned" /\ last.op \in Comparisons) =>
    ComparisonsAgree(last.self, last.args[1], last.ret = Bool(TRUE), TRUE)

\* C26, amended: for all durations a and b neither of whose millisecond
\* counts is NaN, of isLesserThan(b)(a), isEqual(b)(a), isGreaterThan(b)(a)
\* exactly one is true; for all durations a and b,
\* isLesserThanOrEqual(b)(a) is isLesserThan(b)(a) or isEqual(b)(a),
\* isGreaterThanOrEqual(b)(a) is isGreaterThan(b)(a) or isEqual(b)(a), and
\* isLesserThan(b)(a) is isGreaterThan(a)(b).
C26_TotalOrder ==
  (pc = "returned" /\ last.op \in Comparisons) =>
    ComparisonsAgree(last.self, last.args[1], last.ret = Bool(TRUE),
                     Comparable(last.self, last.args[1]))

\* isEqual of a Duration of NaN milliseconds with itself is false, and the
\* Duration is neither lesser nor greater than itself
C26_WitnessNaN ==
  /\ Returned("Duration.isEqual")
  /\ last.self = last.args[1]
  /\ IsNaN(MillisecondsOf(last.self))
  /\ last.ret = Bool(FALSE)
  /\ ~IsLesser(last.self, last.self)
  /\ ~IsGreater(last.self, last.self)

\* isLesserThan of a finite Duration and one of Infinity milliseconds is true
C26_WitnessInfinity ==
  /\ Returned("Duration.isLesserThan")
  /\ IsFinite(MillisecondsOf(last.self))
  /\ MillisecondsOf(last.args[1]) = Infinity
  /\ last.ret = Bool(TRUE)

\* isGreaterThanOrEqual of two distinct Durations of the same length is true
C26_Witness ==
  /\ Returned("Duration.isGreaterThanOrEqual")
  /\ last.self # last.args[1]
  /\ MillisecondsOf(last.self) = MillisecondsOf(last.args[1])
  /\ last.ret = Bool(TRUE)

\* isLesserThan of half a millisecond and one millisecond is true
C26_WitnessLesser ==
  /\ Returned("Duration.isLesserThan")
  /\ MillisecondsOf(last.self) = Number(1, 2)
  /\ MillisecondsOf(last.args[1]) = Integer(1)
  /\ last.ret = Bool(TRUE)

\* the Duration objects of the heap
DurationAddrs == {a \in 1..Len(heap) : "_milliseconds" \in DOMAIN heap[a]}

\* C27: the isNegative field of every Duration built by from, add, subtract,
\* difference, multiply, inverse or abs is true exactly when its millisecond
\* count is strictly less than zero; a zero-length duration is not negative
\* and abs returns it unchanged.
C27_IsNegative ==
  /\ \A a \in DurationAddrs :
       heap[a].isNegative <=> LessThan(heap[a]._milliseconds, Integer(0))
  /\ (Returned("Duration.abs") /\ MillisecondsOf(last.self) = Integer(0)) =>
       (last.ret = last.self /\ heap = HeapBefore)

\* C28: the unit constants are mutually consistent, whatever the state of
\* the program: SECONDS_PER_HOUR is SECONDS_PER_MINUTE * MINUTES_PER_HOUR,
\* SECONDS_PER_DAY is SECONDS_PER_HOUR * HOURS_PER_DAY, MINUTES_PER_DAY is
\* MINUTES_PER_HOUR * HOURS_PER_DAY and MILLISECONDS_PER_HOUR is
\* MILLISECONDS_PER_SECOND * SECONDS_PER_HOUR.
C28_ConstantsConsistent ==
  pc \in {"idle", "returned"} =>
  /\ SECONDS_PER_HOUR = SECONDS_PER_MINUTE * MINUTES_PER_HOUR
  /\ SECONDS_PER_DAY = SECONDS_PER_HOUR * HOURS_PER_DAY
  /\ MINUTES_PER_DAY = MINUTES_PER_HOUR * HOURS_PER_DAY
  /\ MILLISECONDS_PER_HOUR = MILLISECONDS_PER_SECOND * SECONDS_PER_HOUR

(***************************************************************************)
(* Properties of Option and Result, continued                              *)
(***************************************************************************)
\* C29: single canonical None: as long as callers build no None of their
\* own, every None object there is, whether returned by a combinator of
\* Option or by Result.ok, Result.err or Result.transpose or held inside
\* what they return, is the shared Option.None; so comparing a reference
\* with Option.None tests emptiness after any sequence of operations.
C29_CanonicalNone ==
  /\ \A a \in Addrs(heap) : Option_isNone(heap, Ref(a)) <=> Ref(a) = None
  /\ (pc = "returned" /\ ~last.raised /\ last.ret \in Options(heap)
        /\ Option_isNone(heap, last.ret)) => last.ret = None

\* Result.ok of an Err returned the shared None and built nothing, with
\* other containers present
C29_Witness ==
  /\ Returned("Result.ok")
  /\ TagOf(last.self) = "Err"
  /\ OTagOf(last.ret) = "None"
  /\ last.ret = None
  /\ Len(heap) = last.base
  /\ Len(heap) >= 3

\* what combine did in the state reached: on failure it returned the first
\* Err input itself, as it does on the inputs up to that Err alone; on
\* success the Ok and the list it holds were built by the call
CombineOutcome ==
  /\ ~last.raised
  /\ IsRef(last.ret)
  /\ IF ErrPositions # {}
     THEN /\ last.ret = last.args[FirstErrPosition]
          /\ Result_combine(HeapBefore,
                            SubSeq(last.args, 1, FirstErrPosition)).ret
               = last.ret
          /\ Result_combine(HeapBefore,
                            SubSeq(last.args, 1, FirstErrPosition)).heap
               = heap
     ELSE /\ last.ret.n > last.base
          /\ IsRef(heap[last.ret.n].value)
          /\ heap[last.ret.n].value.n > last.base
          /\ heap[heap[last.ret.n].value.n].isArray

\* C30: combine returns its outcome without altering or re-wrapping inputs:
\* on failure the returned container is the first Err input itself, whatever
\* the inputs after it; on success the returned list is a new list built by
\* that call; and no object that existed before the call is changed by it.
C30_CombineFrame ==
  [][(pc' = "returned" /\ last'.op = "Result.combine") =>
       /\ CombineOutcome'
       /\ Len(heap') >= Len(heap)
       /\ SubSeq(heap', 1, Len(heap)) = heap]_vars

\* combine(Ok(x), Err(e)) returned the Err it was given
C30_Witness ==
  /\ Returned("Result.combine")
  /\ Len(last.args) = 2
  /\ TagOf(last.args[1]) = "Ok"
  /\ TagOf(last.args[2]) = "Err"
  /\ last.ret = last.args[2]
  /\ last.ret.n <= last.base

\* combine of an Ok twice over returned a new Ok holding a new list of two
C30_WitnessList ==
  /\ Returned("Result.combine")
  /\ Len(last.args) = 2
  /\ last.args[1] = last.args[2]
  /\ TagOf(last.args[1]) = "Ok"
  /\ last.ret.n > last.base
  /\ heap[last.ret.n].value.n > last.base
  /\ Len(heap[heap[last.ret.n].value.n].items) = 2

====
